---- MODULE Spec2Model ----
(***************************************************************************)
(* WebMediaAnnotator: the annotation Store (undo/redo history with remote  *)
(* change injection), the Store <-> Y.Doc binding of WebMediaAnnotator     *)
(* (initSyncBinding) and the LinkSync peer session protocol.               *)
(*                                                                         *)
(* JavaScript arrays are heap objects: a snapshot made by {...this.state}  *)
(* shares the annotations array of the live state, so the model keeps a    *)
(* heap of arrays and every state/snapshot holds a reference into it.      *)
(* An annotation object is a sequence of <<key, value>> pairs in insertion *)
(* order, which is what object spread and JSON.stringify observe.          *)
(***************************************************************************)
EXTENDS Integers, Sequences, FiniteSets, Bags, TLC

VARIABLES clients, chan, lastOp, events, sent, remoteLive, remoteGone, remoteVer,
          audit, authored, delivered, liveMutated

vars == <<clients, chan, lastOp, events, sent, remoteLive, remoteGone, remoteVer,
          audit, authored, delivered, liveMutated>>

(***************************** bounds ***************************************)
\* most snapshots the explored runs capture on top of the initial one
MaxCaptures == 2
\* most Y.Doc items (map writes, local and remote together) in a document
MaxClock == 3
\* most items the remote author creates in the single-client specification
MaxRemoteClock == 2
\* most local edits (map writes and deletes) in the session specification
MaxEdits == 2
\* most local edits in the relay specification
MaxRelayEdits == 1
\* most local edits in the pair specification
MaxPairEdits == 3
\* most playback messages the video listeners send in the relay
\* specification
MaxPlayback == 1
\* most hold-duration changes of the history-limit specification
MaxCapEdits == 2
\* the largest start frame, native duration and hold duration of the
\* selector specification
MaxFrame == 3
MaxDuration == 3
MaxHold == 3

(**************************** constants *************************************)
HistoryLimit == 50
DefaultHoldDuration == 1

Peer == {"H", "G1", "G2"}
Host == "H"
Guests == Peer \ {Host}
\* the peers whose user edits and plays; G2 only watches
Editors == {"H", "G1"}
Players == {"G1"}
\* Y.Doc clientID of each peer's document (distinct per document)
ClientID(p) == CASE p = "H" -> 1 [] p = "G1" -> 2 [] OTHER -> 3
ClientIDs == {ClientID(p) : p \in Peer}

AnnIds == {"a", "r"}
TempIds == {"temp_drawing"}
IsTemp(id) == id \in TempIds

Undefined == "undefined"
NoId == <<0, 0>>
\* transaction origins: a local transaction has origin null, LinkSync
\* applies received updates with itself as origin
LocalOrigin == "null"
SyncOrigin == "sync"

(*************************** small helpers **********************************)
Max(S) == CHOOSE x \in S : \A y \in S : y <= x

\* the elements of s in the order of their first occurrence
Dedup(s) ==
    LET first == {i \in DOMAIN s : \A j \in 1..(i - 1) : s[j] # s[i]}
        Nth(k) == CHOOSE i \in first : Cardinality({j \in first : j <= i}) = k
    IN [k \in 1..Cardinality(first) |-> s[Nth(k)]]

Range(s) == {s[i] : i \in DOMAIN s}

(************************* annotation objects *******************************)
Keys(a) == {a[i][1] : i \in DOMAIN a}
Has(a, k) == k \in Keys(a)
Get(a, k) == IF Has(a, k) THEN a[CHOOSE i \in DOMAIN a : a[i][1] = k][2] ELSE Undefined
AnnId(a) == Get(a, "id")

\* { ...a, ...u }: a's keys keep their place and take u's value when u has
\* the key; u's other keys follow in u's order
Spread(a, u) ==
    LET kept == [i \in DOMAIN a |-> IF Has(u, a[i][1]) THEN <<a[i][1], Get(u, a[i][1])>> ELSE a[i]]
        IsNew(pair) == ~Has(a, pair[1])
    IN kept \o SelectSeq(u, IsNew)

\* JSON.stringify(obj): the key/value pairs in insertion order; a key whose
\* value is undefined is left out
JSONStringify(a) ==
    LET Defined(pair) == pair[2] # Undefined
    IN SelectSeq(a, Defined)

\* const { fallbackPaths, ...rest } = obj
StripFallbackPaths(a) ==
    LET NotFallback(pair) == pair[1] # "fallbackPaths"
    IN SelectSeq(a, NotFallback)

\* field-for-field equality of two objects (insertion order irrelevant)
SameFields(a, b) == Keys(a) = Keys(b) /\ \A k \in Keys(a) : Get(a, k) = Get(b, k)

IdsOf(anns) == {AnnId(anns[i]) : i \in DOMAIN anns}
HasId(anns, id) == \E i \in DOMAIN anns : AnnId(anns[i]) = id
CountId(anns, id) == Cardinality({i \in DOMAIN anns : AnnId(anns[i]) = id})
\* new Map(anns.map(a => [a.id, a])).get(id): the last entry with the id wins
MapOfGet(anns, id) == anns[Max({i \in DOMAIN anns : AnnId(anns[i]) = id})]

NewAnnotation(id) == << <<"id", id>>, <<"frame", "1">> >>
LocalUpdates == { << <<"frame", "2">> >>, << <<"duration", "2">> >> }
RemoteUpdates == { << <<"frame", "3">> >> }
HoldValues == {1, 2}

(******************************* Y.Doc **************************************)
(* The shared document, as far as LinkSync and the binding use it: three   *)
(* Y.Maps.  A map entry is the rightmost item of the key's item list; every *)
(* set() appends an item whose origin is the item it replaces, concurrent   *)
(* items with the same origin are ordered by clientID, a delete marks the   *)
(* current item deleted.  Updates carry structs (items) and a delete set;   *)
(* structs whose predecessors are missing stay pending.                     *)
(****************************************************************************)
EmptyDoc == [items |-> {}, ds |-> {}, pending |-> {}, pendingDs |-> {}]

ItemIds(items) == {i.id : i \in items}
ItemById(items, id) == CHOOSE i \in items : i.id = id
\* getState(store, client): the next clock expected from the client
StateOf(items, cid) == Cardinality({i \in items : i.id[1] = cid})

\* variant: the state vector of an empty document
emptyStateVector(doc) == [cid \in ClientIDs |-> 0]

\* Y.encodeStateVector(doc)
encodeStateVector(doc) == [cid \in ClientIDs |-> StateOf(doc.items, cid)]

\* the rightmost item of a key: from the list head, follow the child with
\* the greatest clientID
RECURSIVE LastFrom(_, _, _, _)
LastFrom(items, m, k, cur) ==
    LET ch == {i \in items : i.map = m /\ i.key = k /\ i.origin = cur}
    IN IF ch = {} THEN cur
       ELSE LastFrom(items, m, k, (CHOOSE i \in ch : \A j \in ch : j.id[1] <= i.id[1]).id)

MapLast(doc, m, k) == LastFrom(doc.items, m, k, NoId)
\* the id of the key's undeleted current item, NoId when the key is absent
LiveItem(doc, m, k) ==
    LET l == MapLast(doc, m, k) IN IF l \in doc.ds THEN NoId ELSE l
MapGet(doc, m, k) ==
    LET l == LiveItem(doc, m, k)
    IN IF l = NoId THEN Undefined ELSE ItemById(doc.items, l).val
MapKeys(doc, m) == {k \in {i.key : i \in {j \in doc.items : j.map = m}} : LiveItem(doc, m, k) # NoId}

\* ymap.set(key, value) inside a transaction of this document
DocSet(doc, cid, m, k, v) ==
    LET prev == MapLast(doc, m, k)
        it == [id |-> <<cid, StateOf(doc.items, cid)>>, map |-> m, key |-> k,
               origin |-> prev, val |-> v]
    IN [doc EXCEPT !.items = @ \cup {it},
                   !.ds = @ \cup (IF prev = NoId THEN {} ELSE {prev})]

\* ymap.delete(key)
DocDelete(doc, m, k) ==
    LET l == MapLast(doc, m, k)
    IN IF l = NoId THEN doc ELSE [doc EXCEPT !.ds = @ \cup {l}]

\* the update message of a transaction: its new structs and new deletions
TxnUpdate(before, after) ==
    [structs |-> (after.items \cup after.pending) \ (before.items \cup before.pending),
     ds |-> (after.ds \cup after.pendingDs) \ (before.ds \cup before.pendingDs)]
HasContent(upd) == upd.structs # {} \/ upd.ds # {}

\* variant: the diff holds only the delete set
encodeNoStructs(doc, sv) == [structs |-> {}, ds |-> doc.ds \cup doc.pendingDs]

\* Y.encodeStateAsUpdate(doc, stateVector)
encodeStateAsUpdate(doc, sv) ==
    [structs |-> {i \in doc.items \cup doc.pending : i.id[2] >= sv[i.id[1]]},
     ds |-> doc.ds \cup doc.pendingDs]

RECURSIVE IntegrateStructs(_, _)
IntegrateStructs(items, cand) ==
    LET ready == {s \in cand : /\ s.id[2] = StateOf(items, s.id[1])
                               /\ (s.origin = NoId \/ s.origin \in ItemIds(items))}
    IN IF ready = {} THEN [items |-> items, rest |-> cand]
       ELSE IntegrateStructs(items \cup ready, cand \ ready)

\* an item that is not the rightmost of its key is deleted when integrated
NonLast(items) == {i.id : i \in {j \in items : j.id # LastFrom(items, j.map, j.key, NoId)}}

\* variant: a struct of the update that the document already holds is
\* marked deleted
mergeDeletesKnown(doc, upd) ==
    LET cand == {s \in upd.structs \cup doc.pending : s.id \notin ItemIds(doc.items)}
        r == IntegrateStructs(doc.items, cand)
        allDs == upd.ds \cup doc.pendingDs
        ids == ItemIds(r.items)
    IN [items |-> r.items, pending |-> r.rest,
        ds |-> doc.ds \cup NonLast(r.items) \cup (allDs \cap ids)
                  \cup (ItemIds(upd.structs) \cap ItemIds(doc.items)),
        pendingDs |-> allDs \ ids]

\* Y.applyUpdate(doc, update): the document after the merge
DocApplyUpdate(doc, upd) ==
    LET cand == {s \in upd.structs \cup doc.pending : s.id \notin ItemIds(doc.items)}
        r == IntegrateStructs(doc.items, cand)
        allDs == upd.ds \cup doc.pendingDs
        ids == ItemIds(r.items)
    IN [items |-> r.items, pending |-> r.rest,
        ds |-> doc.ds \cup NonLast(r.items) \cup (allDs \cap ids),
        pendingDs |-> allDs \ ids]

\* event.changes.keys of a map for one transaction, in the order the keys
\* were touched (structs by clientID descending then clock; then deletions)
ChangeAction(before, after, m, k) ==
    LET b == LiveItem(before, m, k)
        a == LiveItem(after, m, k)
    IN IF b = a THEN "none"
       ELSE IF b = NoId THEN "add"
       ELSE IF a = NoId THEN "delete"
       ELSE "update"

IdRank(id) == (4 - id[1]) * 100 + id[2]
KeyRank(before, after, m, k) ==
    LET new == {i.id : i \in {j \in after.items \ before.items : j.map = m /\ j.key = k}}
        del == {i.id : i \in {j \in after.items : j.map = m /\ j.key = k /\ j.id \in after.ds \ before.ds}}
        R(S) == CHOOSE x \in {IdRank(id) : id \in S} : \A y \in {IdRank(id) : id \in S} : x <= y
    IN IF new # {} THEN R(new) ELSE IF del # {} THEN 1000 + R(del) ELSE 2000

RECURSIVE SortKeys(_, _, _, _)
SortKeys(S, before, after, m) ==
    IF S = {} THEN <<>>
    ELSE LET k == CHOOSE x \in S : \A y \in S : KeyRank(before, after, m, x) <= KeyRank(before, after, m, y)
         IN <<k>> \o SortKeys(S \ {k}, before, after, m)

KeysChanged(before, after, m) ==
    LET all == {i.key : i \in {j \in after.items : j.map = m}}
        ch == {k \in all : ChangeAction(before, after, m, k) # "none"}
        ks == SortKeys(ch, before, after, m)
    IN [i \in DOMAIN ks |-> <<ks[i], ChangeAction(before, after, m, ks[i])>>]

(***************************** one client ***********************************)
(* A client record holds the Store (heap of annotation arrays, live state, *)
(* history and redo stacks), its Y.Doc, the LinkSync fields and the flags  *)
(* of the binding.  out collects the messages sent and events the Store    *)
(* annotation events emitted while one handler runs.                       *)
(*                                                                         *)
(* The handlers call one another synchronously: a Store operation emits an *)
(* event, the listener of the binding writes the Y.Map, the transaction    *)
(* runs the observers, and so on.  A handler is an operator from the       *)
(* client record to a Result: the record after the handler's statements up *)
(* to its first call, and the calls it makes from there, in order.  Run    *)
(* executes the calls depth-first, each to its end before its caller's     *)
(* next one, as the JavaScript call stack does.                            *)
(****************************************************************************)
InitState == [annotations |-> 1, holdDuration |-> DefaultHoldDuration, isPlaying |-> FALSE]

\* new Store(): the initial snapshot { ...this.state } shares the
\* annotations array of the live state
InitStore ==
    [heap |-> << <<>> >>, state |-> InitState, historyStack |-> <<InitState>>,
     redoStack |-> <<>>, isUndoing |-> FALSE]

InitClient(p) ==
    [id |-> p, store |-> InitStore, doc |-> EmptyDoc,
     peerOpen |-> FALSE, isHost |-> FALSE, dialed |-> FALSE,
     connections |-> {}, closed |-> {}, connectedUsers |-> {}, isConnected |-> FALSE,
     isRemoteSessionUpdate |-> FALSE, isRemotePlayback |-> FALSE,
     sessionTimers |-> 0, playbackTimers |-> 0,
     paused |-> TRUE, videoEvents |-> <<>>, currentFrame |-> 0, plays |-> 0,
     captureOnEvent |-> FALSE, isDrawing |-> FALSE, currentPoints |-> 0,
     strokes |-> 0,
     created |-> {}, out |-> <<>>, events |-> <<>>]

LiveAnns(c) == c.store.heap[c.store.state.annotations]
SnapAnns(c, snap) == c.store.heap[snap.annotations]

Call(fn, args) == [fn |-> fn, args |-> args]
Result(c, calls) == [c |-> c, calls |-> calls]
Done(c) == Result(c, <<>>)

RECURSIVE SetToSeq(_)
SetToSeq(S) ==
    IF S = {} THEN <<>>
    ELSE LET x == CHOOSE y \in S : TRUE IN <<x>> \o SetToSeq(S \ {x})

\* conn.send(msg) on the connection to q
Send(c, q, msg) == [c EXCEPT !.out = Append(@, <<q, msg>>)]

RECURSIVE SendAll(_, _, _)
SendAll(c, qs, msg) ==
    IF qs = <<>> THEN c ELSE SendAll(Send(c, Head(qs), msg), Tail(qs), msg)

\* variant: every connection is sent the message twice
broadcastTwice(c, msg) ==
    SendAll(SendAll(c, SetToSeq(c.connections), msg), SetToSeq(c.connections), msg)

\* LinkSync.broadcast
broadcast(c, msg) == SendAll(c, SetToSeq(c.connections), msg)

\* variant: every update of the document counts as a local one
AnyOriginIsLocal(origin) == TRUE

\* the 'update' listener of the LinkSync constructor
IsLocalUpdate(origin) == origin # SyncOrigin
OnDocUpdate(c, upd, origin) ==
    IF IsLocalUpdate(origin) THEN broadcast(c, [type |-> "update", data |-> upd]) ELSE c

\* variant: the observer treats every transaction as one LinkSync applied
AnyOriginIsSync(origin) == TRUE

\* event.transaction.origin === this.sync
IsFromSync(origin) == origin = SyncOrigin

\* annotationsMap.observe callback: the body of the forEach for one key
ObserveAnnotations(c, key, action, origin) ==
    LET ann == MapGet(c.doc, "annotations", key)
    IN CASE action = "add" ->
                IF ann # Undefined /\ IsFromSync(origin)
                THEN Result(c, <<Call("addAnnotation", <<ann, TRUE>>)>>) ELSE Done(c)
         [] action = "update" ->
                IF ann # Undefined /\ IsFromSync(origin)
                THEN Result(c, <<Call("updateAnnotation", <<key, ann, TRUE>>)>>) ELSE Done(c)
         [] OTHER ->
                IF IsFromSync(origin)
                THEN Result(c, <<Call("deleteAnnotation", <<key, TRUE>>)>>) ELSE Done(c)

\* sessionMap.observe callback; the flag is reset by a zero-delay timer,
\* which runs after the handler
ObserveSession(c, changes, origin) ==
    IF IsFromSync(origin)
    THEN Result([c EXCEPT !.isRemoteSessionUpdate = TRUE, !.sessionTimers = @ + 1],
                IF /\ \E i \in DOMAIN changes : changes[i][1] = "holdDuration"
                   /\ LiveItem(c.doc, "session", "holdDuration") # NoId
                THEN <<Call("setState", <<[holdDuration |-> MapGet(c.doc, "session", "holdDuration")]>>)>>
                ELSE <<>>)
    ELSE Done(c)

\* a transaction of the document: the observers of the maps that changed
\* run, one forEach step per changed key, then 'update' is emitted
Transact(c, docAfter, origin) ==
    LET annotations == KeysChanged(c.doc, docAfter, "annotations")
        session == KeysChanged(c.doc, docAfter, "session")
        upd == TxnUpdate(c.doc, docAfter)
    IN Result([c EXCEPT !.doc = docAfter],
              [i \in DOMAIN annotations |->
                  Call("annotationsMap.observe", <<annotations[i][1], annotations[i][2], origin>>)]
              \o (IF session # <<>> THEN <<Call("sessionMap.observe", <<session, origin>>)>> ELSE <<>>)
              \o (IF HasContent(upd) THEN <<Call("update", <<upd, origin>>)>> ELSE <<>>))

MapSet(c, m, k, v) ==
    Result(c, <<Call("transact", <<DocSet(c.doc, ClientID(c.id), m, k, v), LocalOrigin>>)>>)
MapDelete(c, m, k) ==
    Result(c, <<Call("transact", <<DocDelete(c.doc, m, k), LocalOrigin>>)>>)
\* update bytes the decoder cannot read to the end carry the place where
\* reading fails: in the structs, or after them in the delete set
Readable(upd) == "error" \notin DOMAIN upd
\* variant: the structs of unreadable bytes are never merged
applyUpdateAllOrNothing(c, upd, origin) ==
    IF Readable(upd)
    THEN Result(c, <<Call("transact", <<DocApplyUpdate(c.doc, upd), origin>>)>>)
    ELSE Result(c, <<Call("throw", <<>>)>>)

\* Y.applyUpdate(this.doc, data, this): the structs are read and integrated,
\* then the delete set is read; a decoding error is thrown to the caller,
\* after the transaction that was under way has run its observers
applyUpdate(c, upd, origin) ==
    IF Readable(upd)
    THEN Result(c, <<Call("transact", <<DocApplyUpdate(c.doc, upd), origin>>)>>)
    ELSE IF upd.error = "structs"
    THEN Result(c, <<Call("throw", <<>>)>>)
    ELSE Result(c, <<Call("transact", <<DocApplyUpdate(c.doc, [structs |-> upd.structs, ds |-> {}]), origin>>),
                     Call("throw", <<>>)>>)

(* initSyncBinding: Store -> Sync *)
\* variant: temp_ ids are mirrored into the map like any other id
addWithoutTempFilter(c, ann, fromRemote) ==
    IF fromRemote THEN Done(c)
    ELSE MapSet(c, "annotations", AnnId(ann), StripFallbackPaths(ann))

OnAnnotationAdded(c, ann, fromRemote) ==
    IF fromRemote THEN Done(c)
    ELSE IF IsTemp(AnnId(ann)) THEN Done(c)
    ELSE MapSet(c, "annotations", AnnId(ann), StripFallbackPaths(ann))

\* variant: the update is written to the map also when the map has no
\* entry of the id
updateWithoutExisting(c, id, updates, fromRemote) ==
    IF fromRemote THEN Done(c)
    ELSE IF IsTemp(id) THEN Done(c)
    ELSE IF MapGet(c.doc, "annotations", id) # Undefined
    THEN MapSet(c, "annotations", id,
                Spread(MapGet(c.doc, "annotations", id), StripFallbackPaths(updates)))
    ELSE MapSet(c, "annotations", id, StripFallbackPaths(updates))

OnAnnotationUpdated(c, id, updates, fromRemote) ==
    IF fromRemote THEN Done(c)
    ELSE IF IsTemp(id) THEN Done(c)
    ELSE IF MapGet(c.doc, "annotations", id) # Undefined
    THEN MapSet(c, "annotations", id,
                Spread(MapGet(c.doc, "annotations", id), StripFallbackPaths(updates)))
    ELSE Done(c)

\* variant: a local delete is not mirrored into the map
deleteNotMirrored(c, id, fromRemote) == Done(c)

OnAnnotationDeleted(c, id, fromRemote) ==
    IF fromRemote THEN Done(c)
    ELSE IF IsTemp(id) THEN Done(c)
    ELSE MapDelete(c, "annotations", id)

OnStateChanged(c, newState, oldState) ==
    IF c.isRemoteSessionUpdate THEN Done(c)
    ELSE IF newState.holdDuration # oldState.holdDuration
    THEN MapSet(c, "session", "holdDuration", newState.holdDuration)
    ELSE Done(c)

(* Store *)
setState(c, partial) ==
    LET old == c.store.state
        new == [f \in DOMAIN old |-> IF f \in DOMAIN partial THEN partial[f] ELSE old[f]]
    IN Result([c EXCEPT !.store.state = new], <<Call("state:changed", <<new, old>>)>>)

\* updateStack, one snapshot: snapshot i of the stack (historyStack or
\* redoStack) of the store
InjectSnap(store, stack, i, id, data, action) ==
    LET ref == store[stack][i].annotations
        anns == store.heap[ref]
    IN CASE action = "add" ->
                IF ~HasId(anns, id)
                THEN [store EXCEPT !.heap[ref] = Append(@, data)]
                ELSE store
         [] action = "update" ->
                IF HasId(anns, id)
                THEN LET idx == CHOOSE n \in DOMAIN anns :
                                    AnnId(anns[n]) = id /\ \A j \in 1..(n - 1) : AnnId(anns[j]) # id
                     IN [store EXCEPT !.heap[ref][idx] = Spread(@, data)]
                ELSE store
         [] OTHER ->
                LET NotId(a) == AnnId(a) # id
                IN [store EXCEPT !.heap = Append(@, SelectSeq(anns, NotId)),
                                 ![stack][i].annotations = Len(store.heap) + 1]

RECURSIVE updateStack(_, _, _, _, _, _)
updateStack(store, stack, i, id, data, action) ==
    IF i > Len(store[stack]) THEN store
    ELSE updateStack(InjectSnap(store, stack, i, id, data, action), stack, i + 1, id, data, action)

\* variant: remote adds are not injected into the history
injectSkipsAdd(store, id, data, action) ==
    IF action = "add" THEN store
    ELSE updateStack(updateStack(store, "historyStack", 1, id, data, action),
                     "redoStack", 1, id, data, action)

injectRemoteAnnotationChange(store, id, data, action) ==
    updateStack(updateStack(store, "historyStack", 1, id, data, action),
                "redoStack", 1, id, data, action)

\* the store a Store operation works on: after the injection when the
\* change is remote
Injected(store, fromRemote, id, data, action) ==
    IF fromRemote THEN injectRemoteAnnotationChange(store, id, data, action) ELSE store

\* this.emit('annotation:...'): the event is observed
LogEvent(c, type, id, fromRemote) ==
    [c EXCEPT !.events = Append(@, [type |-> type, id |-> id, fromRemote |-> fromRemote])]

(* Store selectors *)
\* the decimal numeral of a small number, and the number of a numeral
Digits == <<"0", "1", "2", "3", "4", "5", "6", "7", "8", "9">>
Str(n) == Digits[n + 1]
Num(s) == (CHOOSE i \in DOMAIN Digits : Digits[i] = s) - 1
MathMax(x, y) == IF x >= y THEN x ELSE y
\* x || 1 for a number x
OrOne(x) == IF x = 0 THEN 1 ELSE x

\* variant: the hold duration is not looked at
getAnnotationsNativeOnly(c, frame) ==
    LET Visible(a) ==
            LET start == Num(Get(a, "frame"))
                nativeDuration == IF Has(a, "duration") THEN OrOne(Num(Get(a, "duration"))) ELSE 1
            IN frame >= start /\ frame <= start + nativeDuration - 1
    IN SelectSeq(LiveAnns(c), Visible)

\* Store.getAnnotationsForFrame
getAnnotationsForFrame(c, frame) ==
    LET globalWindow == OrOne(c.store.state.holdDuration)
        Visible(a) ==
            LET start == Num(Get(a, "frame"))
                nativeDuration == IF Has(a, "duration") THEN OrOne(Num(Get(a, "duration"))) ELSE 1
                effectiveDuration == MathMax(nativeDuration, globalWindow)
                end == start + effectiveDuration - 1
            IN frame >= start /\ frame <= end
    IN SelectSeq(LiveAnns(c), Visible)

\* this.setState({ annotations }) with a new array, which goes on the heap,
\* and the emit that follows it
SetAnnotations(c, store, annotations, emit) ==
    Result([c EXCEPT !.store = [store EXCEPT !.heap = Append(@, annotations)]],
           <<Call("setState", <<[annotations |-> Len(store.heap) + 1]>>), emit>>)

\* [...this.state.annotations, annotation]
WithAnnotation(store, annotation) == Append(store.heap[store.state.annotations], annotation)

addAnnotation(c, annotation, fromRemote) ==
    LET store == Injected(c.store, fromRemote, AnnId(annotation), annotation, "add")
    IN SetAnnotations(c, store, WithAnnotation(store, annotation),
                      Call("annotation:added", <<annotation, fromRemote>>))

\* this.state.annotations.map(a => a.id === id ? { ...a, ...updates } : a)
WithUpdates(store, id, updates) ==
    [i \in DOMAIN store.heap[store.state.annotations] |->
        IF AnnId(store.heap[store.state.annotations][i]) = id
        THEN Spread(store.heap[store.state.annotations][i], updates)
        ELSE store.heap[store.state.annotations][i]]

updateAnnotation(c, id, updates, fromRemote) ==
    LET store == Injected(c.store, fromRemote, id, updates, "update")
    IN SetAnnotations(c, store, WithUpdates(store, id, updates),
                      Call("annotation:updated", <<id, updates, fromRemote>>))

\* this.state.annotations.filter(a => a.id !== id)
WithoutId(store, id) ==
    LET NotId(a) == AnnId(a) # id
    IN SelectSeq(store.heap[store.state.annotations], NotId)

deleteAnnotation(c, id, fromRemote) ==
    LET store == Injected(c.store, fromRemote, id, <<>>, "delete")
    IN SetAnnotations(c, store, WithoutId(store, id),
                      Call("annotation:deleted", <<id, fromRemote>>))

\* variant: a capture leaves the redo stack as it is
captureKeepsRedo(c) ==
    IF c.store.isUndoing THEN c
    ELSE LET pushed == Append(c.store.historyStack, c.store.state)
         IN [c EXCEPT !.store.historyStack =
                          IF Len(pushed) > HistoryLimit THEN Tail(pushed) ELSE pushed]

\* variant: a capture during undo/redo is not suppressed
captureUnguarded(c) ==
    LET pushed == Append(c.store.historyStack, c.store.state)
    IN [c EXCEPT !.store.historyStack =
                     IF Len(pushed) > HistoryLimit THEN Tail(pushed) ELSE pushed,
                 !.store.redoStack = <<>>]

\* variant: the history stack is not limited
captureNoLimit(c) ==
    IF c.store.isUndoing THEN c
    ELSE [c EXCEPT !.store.historyStack = Append(@, c.store.state),
                   !.store.redoStack = <<>>]

captureSnapshot(c) ==
    IF c.store.isUndoing THEN c
    ELSE LET pushed == Append(c.store.historyStack, c.store.state)
         IN [c EXCEPT !.store.historyStack =
                          IF Len(pushed) > HistoryLimit THEN Tail(pushed) ELSE pushed,
                      !.store.redoStack = <<>>]

\* Deletions: in current but not in target
ReconcileDeletions(currentAnns, targetAnns) ==
    LET Gone(a) == ~HasId(targetAnns, AnnId(a))
        gone == SelectSeq(currentAnns, Gone)
    IN [i \in DOMAIN gone |-> Call("deleteAnnotation", <<AnnId(gone[i]), FALSE>>)]

\* Additions and updates: in target
ReconcileTargets(currentAnns, targetAnns) ==
    LET IsNew(t) == ~HasId(currentAnns, AnnId(t))
        Differs(t) == JSONStringify(MapOfGet(currentAnns, AnnId(t))) # JSONStringify(t)
        Changed(t) == IsNew(t) \/ Differs(t)
        changed == SelectSeq(targetAnns, Changed)
    IN [i \in DOMAIN changed |->
           IF IsNew(changed[i])
           THEN Call("addAnnotation", <<changed[i], FALSE>>)
           ELSE Call("updateAnnotation", <<AnnId(changed[i]), changed[i], FALSE>>)]

\* variant: undo/redo replace the live state by the snapshot
silentStateSwap(c, targetState) == Done([c EXCEPT !.store.state = targetState])

applyStateReconciliation(c, targetState) ==
    Result(c, ReconcileDeletions(LiveAnns(c), SnapAnns(c, targetState))
              \o ReconcileTargets(LiveAnns(c), SnapAnns(c, targetState))
              \o <<Call("setState",
                        <<[f \in DOMAIN targetState \ {"annotations"} |-> targetState[f]]>>)>>)

\* variant: undo pops the last snapshot too
undoToEmpty(c) ==
    IF Len(c.store.historyStack) = 0 THEN Done(c)
    ELSE LET hs == c.store.historyStack
         IN Result([c EXCEPT !.store.isUndoing = TRUE,
                             !.store.historyStack = SubSeq(hs, 1, Len(hs) - 1),
                             !.store.redoStack = Append(@, hs[Len(hs)])],
                   << Call("applyStateReconciliation", <<hs[Max({1, Len(hs) - 1})]>>),
                      Call("isUndoing", <<FALSE>>) >>)

undo(c) ==
    IF Len(c.store.historyStack) <= 1 THEN Done(c)
    ELSE LET hs == c.store.historyStack
         IN Result([c EXCEPT !.store.isUndoing = TRUE,
                             !.store.historyStack = SubSeq(hs, 1, Len(hs) - 1),
                             !.store.redoStack = Append(@, hs[Len(hs)])],
                   << Call("applyStateReconciliation", <<hs[Len(hs) - 1]>>),
                      Call("isUndoing", <<FALSE>>) >>)

redo(c) ==
    IF Len(c.store.redoStack) = 0 THEN Done(c)
    ELSE LET rs == c.store.redoStack
         IN Result([c EXCEPT !.store.isUndoing = TRUE,
                             !.store.redoStack = SubSeq(rs, 1, Len(rs) - 1),
                             !.store.historyStack = Append(@, rs[Len(rs)])],
                   << Call("applyStateReconciliation", <<rs[Len(rs)]>>),
                      Call("isUndoing", <<FALSE>>) >>)

\* arrays no state or snapshot refers to any more are garbage: the heap is
\* kept to the arrays in use, numbered in order of first reference
CollectGarbage(store) ==
    LET refs == <<store.state.annotations>>
                \o [i \in DOMAIN store.historyStack |-> store.historyStack[i].annotations]
                \o [i \in DOMAIN store.redoStack |-> store.redoStack[i].annotations]
        order == Dedup(refs)
        New(r) == CHOOSE i \in DOMAIN order : order[i] = r
        Move(snap) == [snap EXCEPT !.annotations = New(@)]
    IN [store EXCEPT !.heap = [i \in DOMAIN order |-> store.heap[order[i]]],
                     !.state = Move(@),
                     !.historyStack = [i \in DOMAIN @ |-> Move(@[i])],
                     !.redoStack = [i \in DOMAIN @ |-> Move(@[i])]]

(* Player *)
NoFrame == 0 - 1

\* videoElement.play(): a paused element starts and will fire 'play'
play(c) ==
    IF c.paused THEN [c EXCEPT !.paused = FALSE, !.videoEvents = Append(@, "play")] ELSE c

\* videoElement.pause(): a playing element stops and will fire 'pause'
pause(c) ==
    IF ~c.paused THEN [c EXCEPT !.paused = TRUE, !.videoEvents = Append(@, "pause")] ELSE c

\* setting currentTime starts a seek that will fire 'seeked'
seekToFrame(c, frame) ==
    [c EXCEPT !.currentFrame = frame, !.videoEvents = Append(@, "seeked")]

(* LinkSync *)
SyncMsg(type, data) == [type |-> type, data |-> data]
UserMsg(user) == [type |-> "announce-user", user |-> user]
PlaybackMsg(action, frame) == [type |-> "playback", action |-> action, frame |-> frame]

sendPlayback(c, action, frame) == broadcast(c, PlaybackMsg(action, frame))

sendPlaybackToPeer(c, peerId, action, frame) ==
    IF peerId \in c.connections THEN Send(c, peerId, PlaybackMsg(action, frame)) ELSE c

announceUser(c, user) ==
    [broadcast(c, UserMsg(user)) EXCEPT !.connectedUsers = @ \cup {user}]

\* SyncPanel: 'ready' and 'request-announce' announce the local user
OnReady(c) == announceUser([c EXCEPT !.isConnected = TRUE], c.id)
OnRequestAnnounce(c) == IF c.peerOpen THEN announceUser(c, c.id) ELSE c

\* initPlaybackSync: the host sends its playback state to a new peer
OnConnectionOpen(c, peerId) ==
    IF c.isHost
    THEN LET c1 == sendPlaybackToPeer(c, peerId, "seek", c.currentFrame)
         IN IF c.store.state.isPlaying
            THEN sendPlaybackToPeer(c1, peerId, "play", NoFrame)
            ELSE sendPlaybackToPeer(c1, peerId, "pause", c.currentFrame)
    ELSE c

\* initPlaybackSync: 'playback:change'; the flag is reset by a 50 ms timer
OnPlaybackChange(c, msg) ==
    LET c1 == [c EXCEPT !.isRemotePlayback = TRUE]
        c2 == CASE msg.action = "play" -> play(c1)
                [] msg.action = "pause" ->
                       IF msg.frame # NoFrame THEN seekToFrame(pause(c1), msg.frame) ELSE pause(c1)
                [] OTHER ->
                       IF msg.frame # NoFrame THEN seekToFrame(c1, msg.frame) ELSE c1
    IN [c2 EXCEPT !.playbackTimers = @ + 1]

\* variant: the host does not send its user list to the new peer
openWithoutUserList(c, peerId) ==
    LET c1 == [c EXCEPT !.connections = @ \cup {peerId}]
        c2 == OnConnectionOpen(c1, peerId)
        c3 == Send(c2, peerId, SyncMsg("sync-step-1", encodeStateVector(c2.doc)))
    IN OnRequestAnnounce(c3)

\* the 'open' handler of handleConnection
handleConnectionOpen(c, peerId) ==
    LET c1 == [c EXCEPT !.connections = @ \cup {peerId}]
        c2 == OnConnectionOpen(c1, peerId)
        c3 == Send(c2, peerId, SyncMsg("sync-step-1", encodeStateVector(c2.doc)))
        c4 == OnRequestAnnounce(c3)
        users == SetToSeq(c4.connectedUsers)
    IN IF c4.isHost
       THEN [c4 EXCEPT !.out = @ \o [i \in DOMAIN users |-> <<peerId, UserMsg(users[i])>>]]
       ELSE c4

\* variant: the relay goes to every open connection
RelayToAll(c, from) == c.connections

\* HOST RELAY LOGIC: to every open connection but the sender's
RelayTargets(c, from) == c.connections \ {from}
\* variant: the message goes back to its sender, in any role
relayBack(c, from, msg) == Send(c, from, msg)

\* variant: a client in any role relays, to every open connection
relayInAnyRole(c, from, msg) == SendAll(c, SetToSeq(c.connections), msg)

\* handleMessage: if (this.isHost) this.relay(msg, peerId)
HostRelay(c, from, msg) ==
    IF c.isHost THEN SendAll(c, SetToSeq(RelayTargets(c, from)), msg) ELSE c

\* case 'update' of handleMessage, after applyUpdate
RelayUpdate(c, from, msg) == HostRelay(c, from, msg)

handleMessage(c, from, msg) ==
    CASE msg.type = "sync-step-1" ->
             Done(Send(c, from, SyncMsg("sync-step-2", encodeStateAsUpdate(c.doc, msg.data))))
      [] msg.type = "sync-step-2" ->
             Result(c, <<Call("applyUpdate", <<msg.data, SyncOrigin>>)>>)
      [] msg.type = "update" ->
             Result(c, << Call("applyUpdate", <<msg.data, SyncOrigin>>),
                          Call("relay", <<from, msg>>) >>)
      [] msg.type = "announce-user" ->
             Done(HostRelay([c EXCEPT !.connectedUsers = @ \cup {msg.user}], from, msg))
      [] msg.type = "playback" -> Done(HostRelay(OnPlaybackChange(c, msg), from, msg))
      [] OTHER -> Done(c)

\* the 'close' handler of handleConnection
handleConnectionClose(c, peerId) ==
    [c EXCEPT !.connectedUsers = @ \ {peerId}, !.connections = @ \ {peerId},
              !.closed = @ \cup {peerId}]

\* the 'error' handler of handleConnection: the error is logged
handleConnectionError(c, peerId) == c

\* SyncPanel: 'disconnected' resets the panel
OnDisconnected(c) == [LogEvent(c, "disconnected", "", FALSE) EXCEPT !.isConnected = FALSE]

\* variant: the connections are left as they are
disconnectKeepsChannels(c) == OnDisconnected([c EXCEPT !.peerOpen = FALSE])

\* LinkSync.disconnect
disconnect(c) ==
    OnDisconnected([c EXCEPT !.closed = @ \cup c.connections, !.connections = {},
                             !.peerOpen = FALSE])

\* the 'data' handler of handleConnection: only objects are messages
TypeOf(data) == IF "typeof" \in DOMAIN data THEN data.typeof ELSE "object"
OnData(c, from, data) ==
    IF TypeOf(data) = "object" THEN handleMessage(c, from, data) ELSE Done(c)

\* the listeners of initPlaybackSync for one video event
SyncVideoEvent(c, e) ==
    IF c.isRemotePlayback THEN c
    ELSE CASE e = "play" -> sendPlayback([c EXCEPT !.plays = @ + 1], "play", NoFrame)
           [] e = "pause" -> sendPlayback([c EXCEPT !.plays = @ + 1], "pause", c.currentFrame)
           [] OTHER -> sendPlayback([c EXCEPT !.plays = @ + 1], "seek", c.currentFrame)

\* the DOM listeners for one video event: Player's, then initPlaybackSync's
OnVideoEvent(c, e) ==
    Result(c, (IF e \in {"play", "pause"}
               THEN <<Call("setState", <<[isPlaying |-> e = "play"]>>)>>
               ELSE <<>>)
              \o <<Call("videoElement", <<e>>)>>)

\* one call on the client record
\* a listener the application registered with store.on for the annotation
\* events, after the binding's: it calls captureSnapshot()
Listened(r) ==
    IF r.c.captureOnEvent THEN Result(r.c, r.calls \o <<Call("captureSnapshot", <<>>)>>) ELSE r

Step(c, call) ==
    LET fn == call.fn
        a == call.args
    IN CASE fn = "addAnnotation" -> addAnnotation(c, a[1], a[2])
         [] fn = "updateAnnotation" -> updateAnnotation(c, a[1], a[2], a[3])
         [] fn = "deleteAnnotation" -> deleteAnnotation(c, a[1], a[2])
         [] fn = "setState" -> setState(c, a[1])
         [] fn = "undo" -> undo(c)
         [] fn = "redo" -> redo(c)
         [] fn = "applyStateReconciliation" -> applyStateReconciliation(c, a[1])
         [] fn = "isUndoing" -> Done([c EXCEPT !.store.isUndoing = a[1]])
         [] fn = "annotation:added" ->
                Listened(OnAnnotationAdded(LogEvent(c, fn, AnnId(a[1]), a[2]), a[1], a[2]))
         [] fn = "annotation:updated" ->
                Listened(OnAnnotationUpdated(LogEvent(c, fn, a[1], a[3]), a[1], a[2], a[3]))
         [] fn = "annotation:deleted" ->
                Listened(OnAnnotationDeleted(LogEvent(c, fn, a[1], a[2]), a[1], a[2]))
         [] fn = "captureSnapshot" -> Done(captureSnapshot(c))
         [] fn = "state:changed" -> OnStateChanged(c, a[1], a[2])
         [] fn = "applyUpdate" -> applyUpdate(c, a[1], a[2])
         [] fn = "transact" -> Transact(c, a[1], a[2])
         [] fn = "annotationsMap.observe" -> ObserveAnnotations(c, a[1], a[2], a[3])
         [] fn = "sessionMap.observe" -> ObserveSession(c, a[1], a[2])
         [] fn = "update" -> Done(OnDocUpdate(c, a[1], a[2]))
         [] fn = "data" -> OnData(c, a[1], a[2])
         [] fn = "handleMessage" -> handleMessage(c, a[1], a[2])
         [] fn = "relay" -> Done(RelayUpdate(c, a[1], a[2]))
         [] fn = "video" -> OnVideoEvent(c, a[1])
         [] fn = "videoElement" -> Done(SyncVideoEvent(c, a[1]))
         [] OTHER -> Done(c)

\* the calls run depth-first: what a call calls runs before the calls
\* that follow it
RECURSIVE Run(_, _)
RunNext(r, rest) == Run(r.c, r.calls \o rest)
\* an error thrown under handleMessage unwinds to its catch, the last
\* statement of the handler: the calls that were to follow are dropped
Run(c, calls) ==
    IF calls = <<>> THEN c
    ELSE IF Head(calls).fn = "throw" THEN c
    ELSE RunNext(Step(c, Head(calls)), Tail(calls))

(****************************** actions *************************************)
NoMsg == [type |-> "none"]
Op(name, p, id) == [op |-> name, peer |-> p, id |-> id, from |-> "", msg |-> NoMsg]

Channels == {pq \in Peer \X Peer : pq[1] # pq[2]}

RECURSIVE Enqueue(_, _, _)
Enqueue(ch, p, out) ==
    IF out = <<>> THEN ch
    ELSE Enqueue([ch EXCEPT ![<<p, Head(out)[1]>>] = Append(@, Head(out)[2])], p, Tail(out))

\* the update messages among the messages sent
UpdatesOf(out) == {out[i][2] : i \in {j \in DOMAIN out : out[j][2].type = "update"}}

\* the peers an update that p broadcasts now is on its way to: the host's
\* open connections, and the host itself for a guest
DueTo(p) ==
    IF p = Host THEN clients[Host].connections
    ELSE IF Host \in clients[p].connections
    THEN {Host} \cup (clients[Host].connections \ {p})
    ELSE {}

\* the handler of peer p ended in client record c: its messages go out on
\* the channels ch; relayed are the messages it forwarded.  With audit on,
\* authored records the update messages peers authored.  liveMutated
\* tells whether the array that was the live collection when the handler
\* began has other contents at its end
FinishOn(ch, p, c, relayed) ==
    /\ clients' = [clients EXCEPT ![p] = [c EXCEPT !.store = CollectGarbage(@),
                                                   !.out = <<>>, !.events = <<>>]]
    /\ chan' = Enqueue(ch, p, c.out)
    /\ events' = c.events
    /\ sent' = c.out
    /\ authored' = IF audit
                   THEN authored \cup {[by |-> p, msg |-> m, to |-> DueTo(p)] :
                                          m \in UpdatesOf(c.out) \ relayed}
                   ELSE authored
    /\ UNCHANGED audit
    /\ liveMutated' = (c.store.heap[clients[p].store.state.annotations] # LiveAnns(clients[p]))

Finish(p, c) == FinishOn(chan, p, c, {}) /\ UNCHANGED delivered

\* the id generator of a tool (uuidv4): each peer creates its own ids, once
Creator(id) == IF id = "a" THEN "H" ELSE "G1"
LocalClock(c) == StateOf(c.doc.items, ClientID(c.id))
WithinClock(c) == Cardinality(c.doc.items) <= MaxClock

\* a handler that ended with a document of the size explored
FinishWithin(p, c) == WithinClock(c) /\ Finish(p, c)

UnchangedGhosts == UNCHANGED <<remoteLive, remoteGone, remoteVer>>

Init ==
    /\ clients = [p \in Peer |-> InitClient(p)]
    /\ chan = [pq \in Channels |-> <<>>]
    /\ lastOp = Op("init", Host, "")
    /\ events = <<>>
    /\ sent = <<>>
    /\ remoteLive = {}
    /\ remoteGone = {}
    /\ remoteVer = {}
    /\ audit = FALSE
    /\ authored = {}
    /\ delivered = EmptyBag
    /\ liveMutated = FALSE

\* a tool adds a new annotation
LocalAdd(p, id) ==
    /\ Creator(id) = p
    /\ id \notin clients[p].created
    /\ FinishWithin(p, Run([clients[p] EXCEPT !.created = @ \cup {id}],
                            <<Call("addAnnotation", <<NewAnnotation(id), FALSE>>)>>))
    /\ lastOp' = Op("add", p, id)
    /\ remoteGone' = {x \in remoteGone : x[1] # id}
    /\ UNCHANGED <<remoteLive, remoteVer>>

LocalUpdate(p, id, u) ==
    /\ HasId(LiveAnns(clients[p]), id)
    /\ FinishWithin(p, Run(clients[p], <<Call("updateAnnotation", <<id, u, FALSE>>)>>))
    /\ lastOp' = Op("update", p, id)
    /\ remoteVer' = {v \in remoteVer : v[1] # id}
    /\ UNCHANGED <<remoteLive, remoteGone>>

LocalDelete(p, id) ==
    /\ HasId(LiveAnns(clients[p]), id)
    /\ Finish(p, Run(clients[p], <<Call("deleteAnnotation", <<id, FALSE>>)>>))
    /\ lastOp' = Op("delete", p, id)
    /\ remoteLive' = remoteLive \ {id}
    /\ remoteVer' = {v \in remoteVer : v[1] # id}
    /\ UNCHANGED remoteGone

\* the user changes the hold duration in the toolbar
SetHold(p, v) ==
    /\ v # clients[p].store.state.holdDuration
    /\ FinishWithin(p, Run(clients[p], <<Call("setState", <<[holdDuration |-> v]>>)>>))
    /\ lastOp' = Op("hold", p, "")
    /\ UnchangedGhosts

Capture(p) ==
    /\ Finish(p, captureSnapshot(clients[p]))
    /\ lastOp' = Op("capture", p, IF clients[p].store.redoStack = <<>> THEN "" ELSE "redo")
    /\ UnchangedGhosts

Undo(p) ==
    /\ FinishWithin(p, Run(clients[p], <<Call("undo", <<>>)>>))
    /\ lastOp' = Op(IF Len(clients[p].store.historyStack) > 1 THEN "undo" ELSE "undo:none", p, "")
    /\ UnchangedGhosts

Redo(p) ==
    /\ FinishWithin(p, Run(clients[p], <<Call("redo", <<>>)>>))
    /\ lastOp' = Op(IF Len(clients[p].store.redoStack) > 0 THEN "redo" ELSE "redo:none", p, "")
    /\ UnchangedGhosts

(* The single-client specification: the peers of client H are represented  *)
(* by one remote author that has seen H's document and whose transactions  *)
(* arrive as update messages.                                               *)
RemoteAuthor == ClientID("G1")
InRedo(c, id) == \E i \in DOMAIN c.store.redoStack : HasId(SnapAnns(c, c.store.redoStack[i]), id)
RemoteClock(c) == StateOf(c.doc.items, RemoteAuthor)

\* the values the remote author may set a key to
RemoteValues(doc, k) ==
    LET cur == MapGet(doc, "annotations", k)
        last == MapLast(doc, "annotations", k)
    IN IF cur # Undefined THEN {Spread(cur, u) : u \in RemoteUpdates}
       ELSE IF last # NoId THEN {ItemById(doc.items, last).val}
       ELSE IF Creator(k) # Host THEN {NewAnnotation(k)}
       ELSE {}

RemoteSet(p, k, v) ==
    /\ RemoteClock(clients[p]) < MaxRemoteClock
    /\ Cardinality(clients[p].doc.items) < MaxClock
    /\ v \in RemoteValues(clients[p].doc, k)
    /\ LET before == clients[p].doc
           upd == TxnUpdate(before, DocSet(before, RemoteAuthor, "annotations", k, v))
           isAdd == MapGet(before, "annotations", k) = Undefined
       IN /\ Finish(p, Run(clients[p], <<Call("applyUpdate", <<upd, SyncOrigin>>)>>))
          /\ lastOp' = Op(IF isAdd THEN "remoteAdd" ELSE "remoteUpdate", p, k)
          /\ remoteLive' = IF isAdd THEN remoteLive \cup {k} ELSE remoteLive
          /\ remoteGone' = IF isAdd THEN {x \in remoteGone : x[1] # k} ELSE remoteGone
          /\ remoteVer' = {x \in remoteVer : x[1] # k}
                            \cup (IF isAdd THEN {} ELSE {<<k, v, InRedo(clients[p], k)>>})

RemoteDelete(p, k) ==
    /\ MapGet(clients[p].doc, "annotations", k) # Undefined
    /\ LET before == clients[p].doc
           upd == TxnUpdate(before, DocDelete(before, "annotations", k))
       IN Finish(p, Run(clients[p], <<Call("applyUpdate", <<upd, SyncOrigin>>)>>))
    /\ lastOp' = Op("remoteDelete", p, k)
    /\ remoteLive' = remoteLive \ {k}
    /\ remoteGone' = remoteGone \cup {<<k, InRedo(clients[p], k)>>}
    /\ remoteVer' = {x \in remoteVer : x[1] # k}

Next ==
    \/ \E id \in AnnIds : LocalAdd(Host, id)
    \/ \E id \in AnnIds, u \in LocalUpdates : LocalUpdate(Host, id, u)
    \/ \E id \in AnnIds : LocalDelete(Host, id)
    \/ Len(clients[Host].store.historyStack) <= MaxCaptures /\ Capture(Host)
    \/ Undo(Host)
    \/ Redo(Host)
    \/ \E k \in AnnIds, v \in UNION {RemoteValues(clients[Host].doc, x) : x \in AnnIds} : RemoteSet(Host, k, v)
    \/ \E k \in AnnIds : RemoteDelete(Host, k)

Spec == Init /\ [][Next]_vars

(* The session specification: host H and guests G1, G2, each guest with one *)
(* data connection to the host.  chan[<<p, q>>] holds the messages p sent   *)
(* to q that q has not handled yet.                                         *)
AllItems == UNION {clients[p].doc.items \cup clients[p].doc.pending : p \in Peer}
AllDeleted == UNION {clients[p].doc.ds \cup clients[p].doc.pendingDs : p \in Peer}
\* the local edits of the session so far
EditCount == Cardinality(AllItems) + Cardinality(AllDeleted \ NonLast(AllItems))
EditsLeft == EditCount < MaxEdits

RECURSIVE Sum(_, _)
Sum(f, S) == IF S = {} THEN 0 ELSE LET x == CHOOSE y \in S : TRUE IN f[x] + Sum(f, S \ {x})
PlaybackCount == Sum([p \in Peer |-> clients[p].plays], Peer)

\* LinkSync.createSession and the 'open' event of the peer
CreateSession(p) ==
    /\ p = Host
    /\ ~clients[p].peerOpen
    /\ Finish(p, OnReady([clients[p] EXCEPT !.isHost = TRUE, !.peerOpen = TRUE]))
    /\ lastOp' = Op("createSession", p, "")
    /\ UnchangedGhosts

\* LinkSync.connect(hostId): the peer opens, then the host is dialed
Connect(p) ==
    /\ p \in Guests
    /\ clients[Host].peerOpen
    /\ ~clients[p].dialed
    /\ \A ch \in Channels : chan[ch] = <<>>
    /\ \A g \in Guests : clients[g].dialed => (Host \in clients[g].connections /\ g \in clients[Host].connections)
    /\ Finish(p, OnReady([clients[p] EXCEPT !.isHost = FALSE, !.peerOpen = TRUE, !.dialed = TRUE]))
    /\ lastOp' = Op("connect", p, "")
    /\ UnchangedGhosts

Linked(p, q) == (p = Host /\ q \in Guests) \/ (q = Host /\ p \in Guests)
Guest(p, q) == IF p = Host THEN q ELSE p

\* the 'open' event of p's connection with q
ConnOpen(p, q) ==
    /\ Linked(p, q)
    /\ clients[Guest(p, q)].dialed
    /\ q \notin clients[p].connections
    /\ q \notin clients[p].closed
    /\ clients[p].peerOpen
    /\ Finish(p, handleConnectionOpen(clients[p], q))
    /\ lastOp' = [Op("open", p, "") EXCEPT !.from = q]
    /\ UnchangedGhosts

\* the 'data' event of q's connection with p for the oldest message
Deliver(p, q) ==
    /\ <<p, q>> \in Channels
    /\ chan[<<p, q>>] # <<>>
    /\ p \in clients[q].connections
    /\ FinishOn([chan EXCEPT ![<<p, q>>] = Tail(@)], q,
                Run(clients[q], <<Call("data", <<p, Head(chan[<<p, q>>])>>)>>),
                UpdatesOf(<< <<q, Head(chan[<<p, q>>])>> >>))
    /\ delivered' = IF audit
                    THEN delivered (+) SetToBag({<<q, m>> : m \in UpdatesOf(<< <<q, Head(chan[<<p, q>>])>> >>)})
                    ELSE delivered
    /\ lastOp' = [op |-> "deliver", peer |-> q, id |-> "", from |-> p,
                  msg |-> Head(chan[<<p, q>>])]
    /\ UnchangedGhosts

\* the zero-delay timer of sessionMap.observe
SessionTimer(p) ==
    /\ clients[p].sessionTimers > 0
    /\ Finish(p, [clients[p] EXCEPT !.isRemoteSessionUpdate = FALSE, !.sessionTimers = @ - 1])
    /\ lastOp' = Op("sessionTimer", p, "")
    /\ UnchangedGhosts

\* the 50 ms timer of 'playback:change'
PlaybackTimer(p) ==
    /\ clients[p].playbackTimers > 0
    /\ Finish(p, [clients[p] EXCEPT !.isRemotePlayback = FALSE, !.playbackTimers = @ - 1])
    /\ lastOp' = Op("playbackTimer", p, "")
    /\ UnchangedGhosts

\* the user presses play
UserPlay(p) ==
    /\ clients[p].paused
    /\ clients[p].videoEvents = <<>>
    /\ PlaybackCount = 0
    /\ Finish(p, play(clients[p]))
    /\ lastOp' = Op("userPlay", p, "")
    /\ UnchangedGhosts

\* the video element fires its oldest pending event
VideoEvent(p) ==
    /\ clients[p].videoEvents # <<>>
    /\ clients[p].isRemotePlayback \/ PlaybackCount < MaxPlayback
    /\ Finish(p, Run([clients[p] EXCEPT !.videoEvents = Tail(@)],
                      <<Call("video", <<Head(clients[p].videoEvents)>>)>>))
    /\ lastOp' = Op("videoEvent", p, "")
    /\ UnchangedGhosts

NextNet ==
    \/ \E p \in Peer : CreateSession(p)
    \/ \E p \in Peer : Connect(p)
    \/ \E p, q \in Peer : ConnOpen(p, q)
    \/ \E p, q \in Peer : Deliver(p, q)
    \/ \E p \in Editors, id \in AnnIds : EditsLeft /\ LocalAdd(p, id)
    \/ \E p \in Editors, id \in AnnIds, u \in LocalUpdates : EditsLeft /\ LocalUpdate(p, id, u)
    \/ \E p \in Editors, id \in AnnIds : EditsLeft /\ LocalDelete(p, id)
    \/ \E p \in Editors, v \in HoldValues : EditsLeft /\ SetHold(p, v)
    \/ \E p \in Peer : SessionTimer(p)

SpecNet == Init /\ [][NextNet]_vars

(* The broadcast specification: the same session with the annotation edits *)
(* and the update traffic recorded: authored holds, per update message a    *)
(* peer authored, the peers it was on its way to; delivered counts the     *)
(* update messages each peer's 'data' handler received.                    *)
InitCast ==
    /\ clients = [p \in Peer |-> InitClient(p)]
    /\ chan = [pq \in Channels |-> <<>>]
    /\ lastOp = Op("init", Host, "")
    /\ events = <<>>
    /\ sent = <<>>
    /\ remoteLive = {}
    /\ remoteGone = {}
    /\ remoteVer = {}
    /\ audit = TRUE
    /\ authored = {}
    /\ delivered = EmptyBag
    /\ liveMutated = FALSE

NextCast ==
    \/ \E p \in Peer : CreateSession(p)
    \/ \E p \in Peer : Connect(p)
    \/ \E p, q \in Peer : ConnOpen(p, q)
    \/ \E p, q \in Peer : Deliver(p, q)
    \/ \E p \in Editors, id \in AnnIds : EditsLeft /\ LocalAdd(p, id)
    \/ \E p \in Editors, id \in AnnIds, u \in LocalUpdates : EditsLeft /\ LocalUpdate(p, id, u)
    \/ \E p \in Editors, id \in AnnIds : EditsLeft /\ LocalDelete(p, id)
    \/ \E v \in HoldValues : EditsLeft /\ SetHold(Host, v)
    \/ \E p \in Peer : SessionTimer(p)

SpecCast == InitCast /\ [][NextCast]_vars

(* The relay specification: the same session with the video element of G1  *)
(* live (its events and timers fire) and one annotation edit.               *)
NextRelay ==
    \/ \E p \in Peer : CreateSession(p)
    \/ \E p \in Peer : Connect(p)
    \/ \E p, q \in Peer : ConnOpen(p, q)
    \/ \E p, q \in Peer : Deliver(p, q)
    \/ \E p \in Players, id \in AnnIds : EditCount < MaxRelayEdits /\ LocalAdd(p, id)
    \/ \E p \in Players : PlaybackTimer(p)
    \/ \E p \in Players : UserPlay(p)
    \/ \E p \in Players : VideoEvent(p)

SpecRelay == Init /\ [][NextRelay]_vars

(* The bad-payload specification: the session with one edit of the host,   *)
(* where G1 sends the host, and the host sends G2, payloads that are not   *)
(* messages of the protocol.                                               *)
Primitive == [typeof |-> "string", type |-> "undefined"]
UnknownType == [type |-> "chat"]
Garbage == [structs |-> {}, ds |-> {}, error |-> "structs"]
Truncated ==
    [structs |-> {[id |-> <<ClientID("G1"), 0>>, map |-> "annotations", key |-> "r",
                   origin |-> NoId, val |-> NewAnnotation("r")]},
     ds |-> {}, error |-> "ds"]
BadBytes == {Garbage, Truncated}
BadPayloads ==
    {Primitive, UnknownType}
        \cup {SyncMsg(t, d) : t \in {"sync-step-2", "update"}, d \in BadBytes}
IsBad(m) == m \in BadPayloads

\* the application of peer p sends q a bad payload on their open channel,
\* at a time when no message is in flight
BadSend(p, q, m) ==
    /\ IsBad(m)
    /\ q \in clients[p].connections
    /\ p \in clients[q].connections
    /\ \A pq \in Channels : chan[pq] = <<>>
    /\ chan' = [chan EXCEPT ![<<p, q>>] = Append(@, m)]
    /\ lastOp' = [op |-> "badSend", peer |-> p, id |-> "", from |-> "", msg |-> m]
    /\ events' = <<>>
    /\ sent' = << <<q, m>> >>
    /\ UNCHANGED <<clients, audit, authored, delivered, liveMutated>>
    /\ UnchangedGhosts

NextBad ==
    \/ \E p \in Peer : CreateSession(p)
    \/ \E p \in Peer : Connect(p)
    \/ \E p, q \in Peer : ConnOpen(p, q)
    \/ \E p, q \in Peer : Deliver(p, q)
    \/ EditCount < MaxRelayEdits /\ LocalAdd(Host, "a")
    \/ \E m \in BadPayloads : BadSend("G1", Host, m)
    \/ \E m \in BadPayloads : BadSend(Host, "G2", m)

SpecBad == Init /\ [][NextBad]_vars

(* The connection specification: the session with one edit, where         *)
(* connections report errors, close, and peers call disconnect().          *)
\* the 'error' event of p's connection with q
ConnError(p, q) ==
    /\ q \in clients[p].connections
    /\ Finish(p, handleConnectionError(clients[p], q))
    /\ lastOp' = [Op("connError", p, "") EXCEPT !.from = q]
    /\ UnchangedGhosts

\* the 'close' event of p's connection with q: what q sent and p has not
\* received is lost
ConnClose(p, q) ==
    /\ q \in clients[p].connections
    /\ FinishOn([chan EXCEPT ![<<q, p>>] = <<>>], p, handleConnectionClose(clients[p], q), {})
    /\ UNCHANGED delivered
    /\ lastOp' = [Op("connClose", p, "") EXCEPT !.from = q]
    /\ UnchangedGhosts

\* the user of p leaves the session
Disconnect(p) ==
    /\ clients[p].peerOpen
    /\ Finish(p, disconnect(clients[p]))
    /\ lastOp' = Op("disconnect", p, "")
    /\ UnchangedGhosts

\* no message is in flight
Quiet == \A pq \in Channels : chan[pq] = <<>>

NextConn ==
    \/ ~clients[Host].isHost /\ CreateSession(Host)
    \/ \E p \in Peer : Connect(p)
    \/ \E p, q \in Peer : ConnOpen(p, q)
    \/ \E p, q \in Peer : Deliver(p, q)
    \/ \E p \in Editors, id \in AnnIds : EditCount < MaxRelayEdits /\ LocalAdd(p, id)
    \/ \E p, q \in Peer : Quiet /\ ConnError(p, q)
    \/ \E p, q \in Peer : Quiet /\ ConnClose(p, q)
    \/ \E p \in Peer : Quiet /\ Disconnect(p)

SpecConn == Init /\ [][NextConn]_vars

(* The join specification: the guests join one after the other and nobody  *)
(* edits.                                                                  *)
NextJoin ==
    \/ CreateSession(Host)
    \/ \E p \in Guests : Connect(p)
    \/ \E p, q \in Peer : ConnOpen(p, q)
    \/ \E p, q \in Peer : Deliver(p, q)

SpecJoin == Init /\ [][NextJoin]_vars

(* The selector specification: a Store that holds up to two annotations    *)
(* with any start frame and native duration and any hold duration, asked   *)
(* for the annotations of a frame.                                         *)
FrameAnns(id) ==
    {<< <<"id", id>>, <<"frame", Str(f)>> >> : f \in 0..MaxFrame}
        \cup {<< <<"id", id>>, <<"frame", Str(f)>>, <<"duration", Str(d)>> >> :
                 f \in 0..MaxFrame, d \in 0..MaxDuration}
FrameLists ==
    {<<>>} \cup {<<x>> : x \in FrameAnns("a")}
           \cup {<<x, y>> : x \in FrameAnns("a"), y \in FrameAnns("r")}
FrameStore(anns, hold) ==
    [InitStore EXCEPT !.heap = IF anns = <<>> THEN @ ELSE Append(@, anns),
                      !.state = [@ EXCEPT !.annotations = IF anns = <<>> THEN 1 ELSE 2,
                                          !.holdDuration = hold]]

InitFrame ==
    /\ \E anns \in FrameLists, hold \in 0..MaxHold :
           clients = [p \in Peer |->
                         IF p = Host
                         THEN [InitClient(p) EXCEPT !.store = FrameStore(anns, hold)]
                         ELSE InitClient(p)]
    /\ chan = [pq \in Channels |-> <<>>]
    /\ lastOp = Op("init", Host, "")
    /\ events = <<>>
    /\ sent = <<>>
    /\ remoteLive = {}
    /\ remoteGone = {}
    /\ remoteVer = {}
    /\ audit = FALSE
    /\ authored = {}
    /\ delivered = EmptyBag
    /\ liveMutated = FALSE

\* the canvas asks for the annotations of a frame; lastOp holds the frame
\* and the annotations returned
GetAnnotationsForFrame(p, frame) ==
    /\ lastOp' = [Op("getAnnotationsForFrame", p, "") EXCEPT
                     !.msg = [type |-> "returned", frame |-> frame,
                              annotations |-> getAnnotationsForFrame(clients[p], frame)]]
    /\ UNCHANGED <<clients, chan, events, sent, audit, authored, delivered, liveMutated>>
    /\ UnchangedGhosts

NextFrame == \E frame \in 0..(MaxFrame + MaxDuration) : GetAnnotationsForFrame(Host, frame)

SpecFrame == InitFrame /\ [][NextFrame]_vars

(* The pair specification: host H and guest G1 alone, with more edits.      *)
NextPair ==
    \/ CreateSession(Host)
    \/ Connect("G1")
    \/ \E p, q \in Editors : ConnOpen(p, q)
    \/ \E p, q \in Editors : Deliver(p, q)
    \/ \E p \in Editors, id \in AnnIds : EditCount < MaxPairEdits /\ LocalAdd(p, id)
    \/ \E p \in Editors, id \in AnnIds, u \in LocalUpdates : EditCount < MaxPairEdits /\ LocalUpdate(p, id, u)
    \/ \E p \in Editors, id \in AnnIds : EditCount < MaxPairEdits /\ LocalDelete(p, id)

SpecPair == Init /\ [][NextPair]_vars

(* The listener specification: one client whose application captures a     *)
(* snapshot in a listener of every annotation event.                        *)
InitGuard ==
    /\ clients = [p \in Peer |-> [InitClient(p) EXCEPT !.captureOnEvent = (p = Host)]]
    /\ chan = [pq \in Channels |-> <<>>]
    /\ lastOp = Op("init", Host, "")
    /\ events = <<>>
    /\ sent = <<>>
    /\ remoteLive = {}
    /\ remoteGone = {}
    /\ remoteVer = {}
    /\ audit = FALSE
    /\ authored = {}
    /\ delivered = EmptyBag
    /\ liveMutated = FALSE

NextGuard ==
    \/ \E id \in AnnIds : LocalAdd(Host, id)
    \/ \E id \in AnnIds, u \in LocalUpdates : LocalUpdate(Host, id, u)
    \/ \E id \in AnnIds : LocalDelete(Host, id)
    \/ Len(clients[Host].store.historyStack) <= MaxCaptures /\ Capture(Host)
    \/ Undo(Host)
    \/ Redo(Host)

SpecGuard == InitGuard /\ [][NextGuard]_vars

(* The unknown-id specification: one client whose Store is also called     *)
(* with ids that are not in the live collection, as a local change and as   *)
(* a remote one.                                                            *)
CallOp(name, p, id, data) == [Op(name, p, id) EXCEPT !.msg = [type |-> "call", data |-> data]]

UpdateUnknown(p, id, u, fromRemote) ==
    /\ ~HasId(LiveAnns(clients[p]), id)
    /\ Finish(p, Run(clients[p], <<Call("updateAnnotation", <<id, u, fromRemote>>)>>))
    /\ lastOp' = CallOp(IF fromRemote THEN "updateUnknownRemote" ELSE "updateUnknown", p, id, u)
    /\ UnchangedGhosts

DeleteUnknown(p, id, fromRemote) ==
    /\ ~HasId(LiveAnns(clients[p]), id)
    /\ Finish(p, Run(clients[p], <<Call("deleteAnnotation", <<id, fromRemote>>)>>))
    /\ lastOp' = CallOp(IF fromRemote THEN "deleteUnknownRemote" ELSE "deleteUnknown", p, id, <<>>)
    /\ UnchangedGhosts

NextApi ==
    \/ \E id \in AnnIds : LocalAdd(Host, id)
    \/ \E id \in AnnIds : LocalDelete(Host, id)
    \/ Len(clients[Host].store.historyStack) <= MaxCaptures /\ Capture(Host)
    \/ Undo(Host)
    \/ Redo(Host)
    \/ \E id \in AnnIds, u \in LocalUpdates, fromRemote \in BOOLEAN : UpdateUnknown(Host, id, u, fromRemote)
    \/ \E id \in AnnIds, fromRemote \in BOOLEAN : DeleteUnknown(Host, id, fromRemote)

SpecApi == Init /\ [][NextApi]_vars

(* The drawing specification: host and guest G1 in a session; the host     *)
(* draws with the freehand tool, whose stroke in progress is the transient  *)
(* annotation temp_drawing, and captures, undoes and redoes at any time     *)
(* once the channel is open and the handshake is over.                      *)
TempDrawing == << <<"id", "temp_drawing">>, <<"frame", "1">> >>
MaxPoints == 2
\* most strokes the explored runs begin
MaxStrokes == 2

\* FreehandTool.onMouseDown
MouseDown(p) ==
    /\ ~clients[p].isDrawing
    /\ clients[p].strokes < MaxStrokes
    /\ Finish(p, Run([clients[p] EXCEPT !.isDrawing = TRUE, !.currentPoints = 1,
                                        !.strokes = @ + 1],
                      <<Call("addAnnotation", <<TempDrawing, FALSE>>)>>))
    /\ lastOp' = Op("mouseDown", p, "temp_drawing")
    /\ UnchangedGhosts

\* FreehandTool.onMouseMove
MouseMove(p) ==
    /\ clients[p].isDrawing
    /\ clients[p].currentPoints < MaxPoints
    /\ Finish(p, Run([clients[p] EXCEPT !.currentPoints = @ + 1],
                      <<Call("updateAnnotation",
                             <<"temp_drawing", << <<"points", "2">> >>, FALSE>>)>>))
    /\ lastOp' = Op("mouseMove", p, "temp_drawing")
    /\ UnchangedGhosts

\* FreehandTool.onMouseUp: the stroke becomes an annotation with a new id
\* when it has more than one point
MouseUp(p, id) ==
    /\ clients[p].isDrawing
    /\ Creator(id) = p
    /\ id \notin clients[p].created
    /\ LET c == [clients[p] EXCEPT !.isDrawing = FALSE, !.currentPoints = 0,
                                   !.created = IF clients[p].currentPoints > 1
                                               THEN @ \cup {id} ELSE @]
           finalize == IF clients[p].currentPoints > 1
                       THEN << Call("addAnnotation", <<NewAnnotation(id), FALSE>>),
                               Call("captureSnapshot", <<>>) >>
                       ELSE <<>>
       IN FinishWithin(p, Run(c, <<Call("deleteAnnotation", <<"temp_drawing", FALSE>>)>>
                                  \o finalize))
    /\ lastOp' = Op("mouseUp", p, IF clients[p].currentPoints > 1 THEN id ELSE "temp_drawing")
    /\ UnchangedGhosts

\* the host's channel with G1 is open at both ends and nothing is in flight
InSession ==
    /\ Host \in clients["G1"].connections /\ "G1" \in clients[Host].connections
    /\ chan[<<Host, "G1">>] = <<>> /\ chan[<<"G1", Host>>] = <<>>

NextDraw ==
    \/ CreateSession(Host)
    \/ Connect("G1")
    \/ \E p, q \in Editors : ConnOpen(p, q)
    \/ \E p, q \in Editors : Deliver(p, q)
    \/ InSession /\ MouseDown(Host)
    \/ InSession /\ MouseMove(Host)
    \/ \E id \in AnnIds : InSession /\ MouseUp(Host, id)
    \/ InSession /\ Len(clients[Host].store.historyStack) <= MaxCaptures /\ Capture(Host)
    \/ InSession /\ Undo(Host)
    \/ InSession /\ Redo(Host)

SpecDraw == Init /\ [][NextDraw]_vars

(* The history-limit specification: one client that captures without end,  *)
(* changes the hold duration in between, and undoes and redoes when the     *)
(* history stack is full.                                                   *)
NextCap ==
    \/ Capture(Host)
    \/ \E v \in HoldValues : EditCount < MaxCapEdits /\ SetHold(Host, v)
    \/ Len(clients[Host].store.historyStack) = HistoryLimit /\ Undo(Host)
    \/ Len(clients[Host].store.redoStack) > 0 /\ Redo(Host)

SpecCap == Init /\ [][NextCap]_vars

(******************* observations used by the properties *******************)
\* remoteLive: ids that arrived by a remote add and were not deleted since
\* remoteGone: <<id, inRedo>> ids deleted remotely and not added again since
\* remoteVer:  <<id, u, inRedo>> the last remote update u of an id no local
\*             edit followed; inRedo tells whether a redo snapshot held the
\*             id when the remote change arrived
H == clients[Host]
Live == LiveAnns(H)
TopSnapshot == H.store.historyStack[Len(H.store.historyStack)]
Snapshots == Range(H.store.historyStack) \cup Range(H.store.redoStack)
FieldsApplied(a, u) == \A k \in Keys(u) : Has(a, k) /\ Get(a, k) = Get(u, k)
EventIds(evs, type) == {evs[i].id : i \in {j \in DOMAIN evs : evs[j].type = type}}

\* C1: after any undo every annotation that arrived by a remote add and was
\* not deleted since is still in the live collection
C1_UndoPreservesRemote ==
    lastOp.op = "undo" => \A id \in remoteLive : HasId(Live, id)

\* an undo back to the initial snapshot (taken when the store was empty)
\* that removed the local annotation and kept the remote one
C1_Witness ==
    /\ lastOp.op = "undo"
    /\ Len(H.store.historyStack) = 1
    /\ "r" \in remoteLive
    /\ HasId(Live, "r")
    /\ "a" \in H.created
    /\ ~HasId(Live, "a")

\* C4: a local add, update or delete emits exactly one Store annotation
\* event, with fromRemote = false: the observe callback of the mirrored
\* transaction applies nothing to the Store
C4_NoEchoLoop ==
    lastOp.op \in {"add", "update", "delete"} =>
        /\ Len(events) = 1
        /\ events[1].id = lastOp.id
        /\ events[1].fromRemote = FALSE
        /\ (lastOp.op = "add" => CountId(Live, lastOp.id) = 1)

C4_Witness ==
    /\ lastOp.op = "add"
    /\ MapGet(H.doc, "annotations", lastOp.id) = NewAnnotation(lastOp.id)
    /\ Len(events) = 1

\* C6: after a redo no remotely deleted annotation is in the live
\* collection, and every live entry of a remotely updated annotation has the
\* fields of the remote update
C6_RedoNoStaleRemote ==
    lastOp.op = "redo" =>
        /\ \A g \in remoteGone : ~HasId(Live, g[1])
        /\ \A v \in remoteVer : \A i \in DOMAIN Live :
               AnnId(Live[i]) = v[1] => FieldsApplied(Live[i], v[2])

\* a redo after a remote update that arrived while a redo snapshot held the
\* annotation
C6_Witness ==
    /\ lastOp.op = "redo"
    /\ \E v \in remoteVer : v[3] /\ HasId(Live, v[1])

\* C7: after undo or redo, with no remote activity, the live collection has
\* the ids of the target snapshot and every annotation has exactly the
\* fields of its version in the snapshot
NoRemoteActivity == RemoteClock(H) = 0 /\ remoteGone = {}
C7_RestoresSnapshotVersion ==
    (lastOp.op \in {"undo", "redo"} /\ NoRemoteActivity) =>
        LET T == SnapAnns(H, TopSnapshot)
        IN /\ IdsOf(Live) = IdsOf(T)
           /\ \A i \in DOMAIN Live : SameFields(Live[i], MapOfGet(T, AnnId(Live[i])))

\* C8: undo and redo apply every difference between the live collection C
\* and the target T by deleteAnnotation, addAnnotation or updateAnnotation,
\* each with an event with fromRemote = false, and the binding mirrors them
\* into the annotation map
C8_Step ==
    lastOp'.op \in {"undo", "redo"} =>
        LET C == Live
            T == SnapAnns(clients'[Host], clients'[Host].store.historyStack[Len(clients'[Host].store.historyStack)])
            both == IdsOf(C) \cap IdsOf(T)
            docAfter == clients'[Host].doc
            Written(id) == MapGet(docAfter, "annotations", id)
        IN /\ \A i \in DOMAIN events' : events'[i].fromRemote = FALSE
           /\ EventIds(events', "annotation:deleted") = IdsOf(C) \ IdsOf(T)
           /\ EventIds(events', "annotation:added") = IdsOf(T) \ IdsOf(C)
           /\ EventIds(events', "annotation:updated") \subseteq both
           /\ \A i \in DOMAIN T :
                  (AnnId(T[i]) \in both /\ ~SameFields(MapOfGet(C, AnnId(T[i])), T[i]))
                      => AnnId(T[i]) \in EventIds(events', "annotation:updated")
           /\ \A id \in IdsOf(C) \ IdsOf(T) : Written(id) = Undefined
           /\ \A id \in EventIds(events', "annotation:added") \cup EventIds(events', "annotation:updated") :
                  /\ Written(id) # Undefined
                  /\ \E i \in DOMAIN T : AnnId(T[i]) = id /\ FieldsApplied(Written(id), T[i])
C8_GranularReconciliation == [][C8_Step]_vars

C8_Witness ==
    /\ lastOp.op = "undo"
    /\ Len(events) >= 1
    /\ events[1].type = "annotation:updated"

\* C9: a remote add leaves exactly one annotation with the id in every
\* snapshot of both stacks, a remote delete none, and a remote update leaves
\* the update's fields in every snapshot entry with the id
C9_RemoteChangeInAllHistory ==
    /\ lastOp.op = "remoteAdd" =>
           \A s \in Snapshots : CountId(SnapAnns(H, s), lastOp.id) = 1
    /\ lastOp.op = "remoteDelete" =>
           \A s \in Snapshots : CountId(SnapAnns(H, s), lastOp.id) = 0
    /\ lastOp.op = "remoteUpdate" =>
           \A s \in Snapshots : \A v \in remoteVer : \A i \in DOMAIN SnapAnns(H, s) :
               (v[1] = lastOp.id /\ AnnId(SnapAnns(H, s)[i]) = v[1])
                   => FieldsApplied(SnapAnns(H, s)[i], v[2])

\* observations of the session
Connected(g) == Host \in clients[g].connections /\ g \in clients[Host].connections
Quiescent == (\A g \in Guests : Connected(g)) /\ (\A ch \in Channels : chan[ch] = <<>>)
AnnotationMap(p) ==
    [k \in MapKeys(clients[p].doc, "annotations") |-> MapGet(clients[p].doc, "annotations", k)]
SameMsg(m1, m2) == m1.type = m2.type /\ m1 = m2
Copies(out, q, msg) ==
    Cardinality({i \in DOMAIN out : out[i][1] = q /\ SameMsg(out[i][2], msg)})

\* C2: when every guest is connected and no message is in flight, the
\* annotation maps of all peers' documents are identical
C2_SessionConvergence ==
    Quiescent => \A p, q \in Peer : AnnotationMap(p) = AnnotationMap(q)

\* C3: two replicas that edited on both sides, once the state vectors and
\* diffs are exchanged and nothing is in flight, hold the same annotation map
PairSynced ==
    /\ Connected("G1")
    /\ chan[<<Host, "G1">>] = <<>>
    /\ chan[<<"G1", Host>>] = <<>>
C3_TwoReplicaConvergence ==
    PairSynced => AnnotationMap(Host) = AnnotationMap("G1")

\* both sides added an annotation before the exchange and hold both after
C3_Witness ==
    /\ PairSynced
    /\ DOMAIN AnnotationMap(Host) = {"a", "r"}
    /\ lastOp.op = "deliver"
    /\ lastOp.msg.type = "sync-step-2"
    /\ Len(events) = 1

\* C5: the host forwards a received update, announce-user or playback message
\* exactly once to every other open connection and not to the sender
RelayedTypes == {"update", "announce-user", "playback"}
C5_HostRelayFanOut ==
    (lastOp.op = "deliver" /\ clients[lastOp.peer].isHost /\ lastOp.msg.type \in RelayedTypes) =>
        /\ \A q \in clients[lastOp.peer].connections \ {lastOp.from} :
               Copies(sent, q, lastOp.msg) = 1
        /\ \A i \in DOMAIN sent : sent[i][1] # lastOp.from

\* the host relayed a playback message of G1 to G2 only
C5_Witness ==
    /\ lastOp.op = "deliver"
    /\ lastOp.peer = Host
    /\ lastOp.from = "G1"
    /\ lastOp.msg.type = "playback"
    /\ sent = << <<"G2", lastOp.msg>> >>

\* C10: handling a sync-step-2 or update message merges it into the document
\* and nothing more: the receiver authors no item, and sends nothing but the
\* host's relay of the received update
C10_Step ==
    (lastOp'.op = "deliver" /\ lastOp'.msg.type \in {"sync-step-2", "update"}) =>
        LET q == lastOp'.peer
        IN /\ clients'[q].doc = DocApplyUpdate(clients[q].doc, lastOp'.msg.data)
           /\ LocalClock(clients'[q]) = LocalClock(clients[q])
           /\ \A i \in DOMAIN sent' :
                  /\ clients[q].isHost
                  /\ lastOp'.msg.type = "update"
                  /\ SameMsg(sent'[i][2], lastOp'.msg)
                  /\ sent'[i][1] # lastOp'.from
C10_NoRebroadcast == [][C10_Step]_vars

\* a guest applied a received update to its Store and sent nothing
C10_Witness ==
    /\ lastOp.op = "deliver"
    /\ lastOp.peer \in Guests
    /\ lastOp.msg.type = "update"
    /\ Len(events) = 1
    /\ events[1].fromRemote
    /\ sent = <<>>

\* the peers other than q that authored the update message m
AuthorsBut(q, m) == {a.by : a \in {b \in authored : b.msg = m /\ b.by # q}}

\* C11: a local change is sent as one update message, once to each open
\* connection of its author; no peer is delivered an update message more
\* often than other peers authored it (so never its own), and once nothing
\* is in flight every peer the update was on its way to was delivered it
C11_UpdateDeliveredOnce ==
    /\ \A x \in BagToSet(delivered) :
           CopiesIn(x, delivered) <= Cardinality(AuthorsBut(x[1], x[2]))
    /\ lastOp.op \in {"add", "update", "delete", "hold"} =>
           LET conns == clients[lastOp.peer].connections
           IN /\ Len(sent) \in {0, Cardinality(conns)}
              /\ lastOp.op = "add" => Len(sent) = Cardinality(conns)
              /\ \A i \in DOMAIN sent : sent[i][2].type = "update" /\ sent[i][1] \in conns
              /\ \A i, j \in DOMAIN sent :
                     sent[i][2] = sent[j][2] /\ (sent[i][1] = sent[j][1] => i = j)
    /\ Quiescent =>
           \A a \in authored : \A q \in a.to : CopiesIn(<<q, a.msg>>, delivered) >= 1

\* an update of G1 reached the host and, through the relay, G2, once each
C11_Witness ==
    \E a \in authored :
        /\ a.by = "G1"
        /\ a.to = {Host, "G2"}
        /\ CopiesIn(<<Host, a.msg>>, delivered) = 1
        /\ CopiesIn(<<"G2", a.msg>>, delivered) = 1
        /\ CopiesIn(<<"G1", a.msg>>, delivered) = 0

\* the number of structs of client cid that the document holds
Known(doc, cid) == Cardinality({i \in doc.items : i.id[1] = cid})

\* C12: the 'open' handler sends sync-step-1 with the state vector of its own
\* document; the answer to a sync-step-1 is one sync-step-2 to its sender that
\* carries exactly the structs the received state vector does not cover; when
\* both ends are open and nothing is in flight the two documents are the same
C12_Handshake ==
    /\ lastOp.op = "open" =>
           \E i \in DOMAIN sent :
               /\ sent[i][1] = lastOp.from
               /\ sent[i][2].type = "sync-step-1"
               /\ \A cid \in ClientIDs :
                      sent[i][2].data[cid] = Known(clients[lastOp.peer].doc, cid)
    /\ (lastOp.op = "deliver" /\ lastOp.msg.type = "sync-step-1") =>
           /\ Len(sent) = 1
           /\ sent[1][1] = lastOp.from
           /\ sent[1][2].type = "sync-step-2"
           /\ sent[1][2].data.structs =
                  {i \in clients[lastOp.peer].doc.items : i.id[2] >= lastOp.msg.data[i.id[1]]}
    /\ PairSynced =>
           /\ clients[Host].doc.items = clients["G1"].doc.items
           /\ clients[Host].doc.ds = clients["G1"].doc.ds
           /\ clients[Host].doc.pending = {} /\ clients["G1"].doc.pending = {}

\* both ends had annotations before the channel opened, exchanged them in the
\* handshake and hold the same two structs
C12_Witness ==
    /\ PairSynced
    /\ lastOp.op = "deliver"
    /\ lastOp.msg.type = "sync-step-2"
    /\ lastOp.msg.data.structs # {}
    /\ {i.id[1] : i \in clients[lastOp.peer].doc.items} = {ClientID(Host), ClientID("G1")}
    /\ clients[Host].doc = clients["G1"].doc

\* the client after Y.applyUpdate(doc, data, this) ran once more
AppliedAgain(c, data) == Run(c, <<Call("applyUpdate", <<data, SyncOrigin>>)>>)

\* C13: after a sync-step-2 or update message was merged, applying its data
\* a second time changes nothing: the document (all its maps) and the store
\* stay as they are and no observer reports a change
C13_IdempotentMerge ==
    (lastOp.op = "deliver" /\ lastOp.msg.type \in {"sync-step-2", "update"}) =>
        /\ DocApplyUpdate(clients[lastOp.peer].doc, lastOp.msg.data) = clients[lastOp.peer].doc
        /\ AppliedAgain(clients[lastOp.peer], lastOp.msg.data) = clients[lastOp.peer]

\* a diff with a struct and a deletion was merged and shows in the map
C13_Witness ==
    /\ lastOp.op = "deliver"
    /\ lastOp.msg.type \in {"sync-step-2", "update"}
    /\ lastOp.msg.data.structs # {}
    /\ lastOp.msg.data.ds # {}
    /\ lastOp.msg.data.structs \subseteq clients[lastOp.peer].doc.items
    /\ DOMAIN AnnotationMap(lastOp.peer) # {}

\* C15: the history stack is never empty, and undo() with exactly one
\* snapshot changes neither stack nor the live state, sends nothing and
\* emits no event
C15_Step ==
    /\ \A p \in Peer : Len(clients'[p].store.historyStack) >= 1
    /\ (Undo(Host) /\ Len(clients[Host].store.historyStack) = 1) =>
           /\ clients'[Host] = clients[Host]
           /\ sent' = <<>>
           /\ events' = <<>>
C15_HistoryNeverEmpty == [][C15_Step]_vars

\* undo() was called with the initial snapshot alone and two live annotations
C15_Witness ==
    /\ lastOp.op = "undo:none"
    /\ Len(H.store.historyStack) = 1
    /\ H.store.redoStack = <<>>
    /\ Len(Live) = 2

\* C16: a capture leaves the redo stack empty, and a redo() right after it
\* changes nothing
C16_CaptureClearsRedo ==
    lastOp.op = "capture" =>
        /\ clients[lastOp.peer].store.redoStack = <<>>
        /\ Run(clients[lastOp.peer], <<Call("redo", <<>>)>>) = clients[lastOp.peer]

\* a capture that found an undone snapshot on the redo stack
C16_Witness ==
    /\ lastOp.op = "capture"
    /\ lastOp.id = "redo"
    /\ H.store.redoStack = <<>>
    /\ Len(H.store.historyStack) >= 2

\* a snapshot with its annotations array in place of the reference
Resolved(c, snap) == [snap EXCEPT !.annotations = SnapAnns(c, snap)]
History(c) == [i \in DOMAIN c.store.historyStack |-> Resolved(c, c.store.historyStack[i])]

\* C14: the history stack never holds more than 50 snapshots; a capture
\* appends the live state, and when that makes 51 the oldest snapshot is
\* dropped and the 50 most recent stay in their order
C14_Step ==
    /\ Len(clients'[Host].store.historyStack) <= 50
    /\ Capture(Host) =>
           LET pushed == Append(History(H), Resolved(H, H.store.state))
           IN History(clients'[Host]) =
                  IF Len(pushed) = 51 THEN SubSeq(pushed, 2, 51) ELSE pushed
C14_HistoryLimit == [][C14_Step]_vars

\* the 51st capture happened: the stack is full and the initial snapshot,
\* the only one with the default hold duration, is gone
C14_Witness ==
    /\ lastOp.op = "capture"
    /\ Len(H.store.historyStack) = 50
    /\ H.store.historyStack[1].holdDuration # DefaultHoldDuration
    /\ H.store.historyStack[2].holdDuration # DefaultHoldDuration

Redos(c) == [i \in DOMAIN c.store.redoStack |-> Resolved(c, c.store.redoStack[i])]

\* C17: a captureSnapshot() that a listener calls while undo() or redo()
\* reconciles changes neither stack: undo moves exactly the top snapshot to
\* the redo stack, redo moves it back; no handler ends with the guard set,
\* and a capture after it pushes a snapshot and clears the redo stack
C17_Step ==
    LET hs == History(H)
        rs == Redos(H)
        hs1 == History(clients'[Host])
        rs1 == Redos(clients'[Host])
    IN /\ ~clients'[Host].store.isUndoing
       /\ (Undo(Host) /\ Len(hs) > 1) =>
              /\ hs1 = SubSeq(hs, 1, Len(hs) - 1)
              /\ rs1 = Append(rs, hs[Len(hs)])
       /\ (Redo(Host) /\ Len(rs) > 0) =>
              /\ hs1 = Append(hs, rs[Len(rs)])
              /\ rs1 = SubSeq(rs, 1, Len(rs) - 1)
       /\ Capture(Host) =>
              /\ hs1 = Append(hs, Resolved(H, H.store.state))
              /\ rs1 = <<>>
C17_ReentrancyGuard == [][C17_Step]_vars

\* an undo whose reconciliation emitted an annotation event to the
\* capturing listener, and left one snapshot on the redo stack
C17_Witness ==
    /\ H.captureOnEvent
    /\ lastOp.op = "undo"
    /\ Len(events) >= 1
    /\ Len(H.store.redoStack) = 1
    /\ Len(H.store.historyStack) >= 2

\* C18: snapshots share nothing with the live state: a remote add, which is
\* injected into the snapshots and then added to the live collection, leaves
\* the live collection with exactly one more entry, the added annotation;
\* and a local add, update or delete changes no snapshot of either stack
C18_Step ==
    /\ (lastOp'.op = "remoteAdd" /\ ~HasId(Live, lastOp'.id)) =>
           LiveAnns(clients'[Host]) =
               Append(Live, MapGet(clients'[Host].doc, "annotations", lastOp'.id))
    /\ lastOp'.op \in {"add", "update", "delete"} =>
           /\ History(clients'[Host]) = History(H)
           /\ Redos(clients'[Host]) = Redos(H)
C18_SnapshotsAreDeepCopies == [][C18_Step]_vars

\* C19: the live annotation collection is never modified in place: the
\* array that was the live collection when a handler began (the one a
\* getState() before it returned) has the same contents when it ends
C19_CopyOnWrite == ~liveMutated

DocAnnotations(c) ==
    [k \in MapKeys(c.doc, "annotations") |-> MapGet(c.doc, "annotations", k)]
UnknownOps == {"updateUnknown", "deleteUnknown", "updateUnknownRemote", "deleteUnknownRemote"}

\* C20 as stated: updateAnnotation or deleteAnnotation with an id that is
\* not in the live collection, local or fromRemote, leaves the collection,
\* the history stack, the redo stack and the annotation map unchanged
C20_StatedStep ==
    lastOp'.op \in UnknownOps =>
        /\ LiveAnns(clients'[Host]) = Live
        /\ History(clients'[Host]) = History(H)
        /\ Redos(clients'[Host]) = Redos(H)
        /\ DocAnnotations(clients'[Host]) = DocAnnotations(H)
UpdatedIn(s, t, id, u) ==
    /\ [t EXCEPT !.annotations = <<>>] = [s EXCEPT !.annotations = <<>>]
    /\ Len(t.annotations) = Len(s.annotations)
    /\ \A i \in DOMAIN s.annotations :
           /\ AnnId(t.annotations[i]) = AnnId(s.annotations[i])
           /\ AnnId(s.annotations[i]) # id => t.annotations[i] = s.annotations[i]
    /\ HasId(s.annotations, id) =>
           \E i \in DOMAIN t.annotations :
               AnnId(t.annotations[i]) = id /\ FieldsApplied(t.annotations[i], u)

\* snapshot t is snapshot s without the entries of id
DeletedIn(s, t, id) ==
    LET NotId(a) == AnnId(a) # id
    IN t = [s EXCEPT !.annotations = SelectSeq(@, NotId)]

\* stack T is stack S with the remote change of lastOp' applied to every
\* snapshot
InjectedInto(S, T) ==
    /\ Len(T) = Len(S)
    /\ \A i \in DOMAIN S :
           IF lastOp'.op = "updateUnknownRemote"
           THEN UpdatedIn(S[i], T[i], lastOp'.id, lastOp'.msg.data)
           ELSE DeletedIn(S[i], T[i], lastOp'.id)

\* C20: updateAnnotation or deleteAnnotation with an id that is not in the
\* live collection leaves the collection and the annotation map unchanged;
\* a local call leaves both stacks unchanged too, a fromRemote call applies
\* the change to the snapshots of both stacks that hold the id and leaves
\* the others as they are
C20_Step ==
    lastOp'.op \in UnknownOps =>
        /\ LiveAnns(clients'[Host]) = Live
        /\ DocAnnotations(clients'[Host]) = DocAnnotations(H)
        /\ sent' = <<>>
        /\ lastOp'.op \in {"updateUnknown", "deleteUnknown"} =>
               /\ History(clients'[Host]) = History(H)
               /\ Redos(clients'[Host]) = Redos(H)
        /\ lastOp'.op \in {"updateUnknownRemote", "deleteUnknownRemote"} =>
               /\ InjectedInto(History(H), History(clients'[Host]))
               /\ InjectedInto(Redos(H), Redos(clients'[Host]))
TempOnly(evs) == evs # <<>> /\ \A i \in DOMAIN evs : IsTemp(evs[i].id)
AllKeys(doc) == {i.key : i \in {j \in doc.items \cup doc.pending : j.map = "annotations"}}

\* C21: no key of any peer's annotation map is a temp_ id, and a handler of
\* the Store (tool, undo, redo) whose annotation events are all for temp_
\* ids leaves the document as it is and sends no message
C21_Step ==
    /\ \A p \in Peer : \A k \in AllKeys(clients'[p].doc) : ~IsTemp(k)
    /\ TempOnly(events') =>
           /\ clients'[lastOp'.peer].doc = clients[lastOp'.peer].doc
           /\ sent' = <<>>
C21_TempNeverSynced == [][C21_Step]_vars

\* an undo in an open session whose reconciliation brought the stroke in
\* progress back into the live collection
C21_Witness ==
    /\ lastOp.op = "undo"
    /\ TempOnly(events)
    /\ events[1].type = "annotation:added"
    /\ HasId(Live, "temp_drawing")
    /\ H.connections = {"G1"}

\* the ids of the live annotations of a client that are not temp_ ids
CommittedIds(c) == {id \in IdsOf(LiveAnns(c)) : ~IsTemp(id)}

\* C22: on every client, between handlers, the keys of the annotation map
\* are the ids of the live annotations that are not temp_ ids
C22_MapMirrorsStore ==
    \A p \in Peer : MapKeys(clients[p].doc, "annotations") = CommittedIds(clients[p])

\* an undo took the local annotation out of the store and the map, and the
\* annotation a remote delta added is in both
C22_Witness ==
    /\ lastOp.op = "undo"
    /\ "a" \in H.created
    /\ MapKeys(H.doc, "annotations") = {"r"}
    /\ IdsOf(Live) = {"r"}

\* every guest's channel is open at both ends, every message is delivered
\* and every zero-delay timer has run
SessionSettled ==
    /\ \A g \in Peer \ {Host} :
          Host \in clients[g].connections /\ g \in clients[Host].connections
    /\ \A pq \in Channels : chan[pq] = <<>>
    /\ \A p \in Peer : clients[p].sessionTimers = 0

\* C23: once every message is delivered and every timer has run, the
\* holdDuration of each Store is the value its own session map holds
C23_StoreFollowsMap ==
    SessionSettled =>
        \A p \in Peer :
            LiveItem(clients[p].doc, "session", "holdDuration") # NoId =>
                clients[p].store.state.holdDuration
                    = MapGet(clients[p].doc, "session", "holdDuration")

\* the events of the video element that, in the relay specification, only
\* a received playback message brings about: the user does nothing but
\* press play
EchoEvents == {"seeked", "pause"}

\* C24: a 'seeked' or 'pause' event of the video element that a received
\* playback message brought about goes out as no playback message
C24_Step ==
    (/\ lastOp'.op = "videoEvent"
     /\ Head(clients[lastOp'.peer].videoEvents) \in EchoEvents) =>
        \A i \in DOMAIN sent' : sent'[i][2].type # "playback"
C24_NoPlaybackEcho == [][C24_Step]_vars

\* C25: handling a bad payload changes neither the document nor the Store
\* nor the connection set of the receiver, and sends nothing
C25_Step ==
    (lastOp'.op = "deliver" /\ IsBad(lastOp'.msg)) =>
        LET q == lastOp'.peer
        IN /\ clients'[q].doc = clients[q].doc
           /\ clients'[q].store = clients[q].store
           /\ clients'[q].connections = clients[q].connections
           /\ sent' = <<>>
C25_BadMessagesDiscarded == [][C25_Step]_vars

\* C26: after an error on a connection the connection is out of the
\* connection set
C26_ErrorRemovesChannel ==
    lastOp.op = "connError" => lastOp.from \notin clients[lastOp.peer].connections

\* C27: a guest whose connection with the host closed is not connected
C27_HostLossEndsSession ==
    \A g \in Guests : Host \in clients[g].closed => ~clients[g].isConnected

\* the peer of a client that was in a session is released
Released(c) == ~c.peerOpen /\ (c.isHost \/ c.dialed)

\* C28: disconnect() closes every connection, empties the connection set
\* and releases the peer in one step, and no handler of the client sends a
\* message afterwards
C28_Step ==
    /\ lastOp'.op = "disconnect" =>
           LET p == lastOp'.peer
           IN /\ clients'[p].connections = {}
              /\ clients[p].connections \subseteq clients'[p].closed
              /\ Released(clients'[p])
              /\ sent' = <<>>
    /\ \A p \in Peer : (Released(clients[p]) /\ lastOp'.peer = p) => sent' = <<>>
C28_DisconnectIsComplete == [][C28_Step]_vars

\* the host, which had both guests connected, added an annotation after
\* disconnect()
C28_Witness ==
    /\ lastOp.op = "add"
    /\ lastOp.peer = Host
    /\ Released(H)
    /\ H.closed = Guests
    /\ HasId(Live, "a")
    /\ sent = <<>>

\* guest g's connection with the host is open at both ends
Joined(g) == Host \in clients[g].connections /\ g \in clients[Host].connections

\* g's user list holds every user of the host's, and the host and every
\* guest connected to it have g in theirs
Populated(g) ==
    /\ clients[Host].connectedUsers \subseteq clients[g].connectedUsers
    /\ \A q \in {Host} \cup clients[Host].connections : g \in clients[q].connectedUsers

\* C29: when a guest's connection with the host is open and every message
\* is delivered, the guest knows every user the host knows, and the host
\* and the other connected guests know the guest
C29_PresenceOnJoin ==
    \A g \in Guests : (Joined(g) /\ Quiet) => Populated(g)

\* G2 joined a session G1 was in: every peer lists all three users, and
\* no message is in flight
C29_Witness ==
    /\ Quiet
    /\ Joined("G1")
    /\ Joined("G2")
    /\ \A p \in Peer : clients[p].connectedUsers = Peer

\* the frames the claim gives an annotation under a hold duration: from its
\* start frame to start + max(d, h) - 1, d the duration or 1 when absent or
\* 0, h the hold duration or 1 when 0
LastFrameOf(a, hold) ==
    LET d == IF ~Has(a, "duration") \/ Get(a, "duration") = "0" THEN 1 ELSE Num(Get(a, "duration"))
        h == IF hold = 0 THEN 1 ELSE hold
    IN Num(Get(a, "frame")) + (IF d >= h THEN d ELSE h) - 1
OnFrame(a, f, hold) == Num(Get(a, "frame")) <= f /\ f <= LastFrameOf(a, hold)

\* C30: getAnnotationsForFrame(f) returns the live annotations whose frames
\* include f, in their order, and no other
C30_EffectiveDuration ==
    lastOp.op = "getAnnotationsForFrame" =>
        LET f == lastOp.msg.frame
            got == lastOp.msg.annotations
            hold == H.store.state.holdDuration
        IN /\ \A i \in DOMAIN Live :
                  OnFrame(Live[i], f, hold) <=> (\E j \in DOMAIN got : got[j] = Live[i])
           /\ \A j \in DOMAIN got : \E i \in DOMAIN Live : Live[i] = got[j]
           /\ Len(got) = Cardinality({i \in DOMAIN Live : OnFrame(Live[i], f, hold)})

\* with hold duration 3, frame 3 was asked for: the annotation of frames
\* 1 to 2 is returned, held for three frames, and so is the one that starts
\* on frame 3 with duration 0
C30_Witness ==
    /\ lastOp.op = "getAnnotationsForFrame"
    /\ lastOp.msg.frame = 3
    /\ H.store.state.holdDuration = 3
    /\ Live = << << <<"id", "a">>, <<"frame", "1">>, <<"duration", "2">> >>,
                 << <<"id", "r">>, <<"frame", "3">>, <<"duration", "0">> >> >>
    /\ lastOp.msg.annotations = Live

(* The traffic specification: the star session of H, G1 and G2; once every  *)
(* guest is connected the editors add, update, delete, capture, undo and    *)
(* redo at any time, also with messages in flight, until the documents hold *)
(* MaxLoopEdits changes.                                                    *)
MaxLoopEdits == 2

\* every guest's channel with the host is open at both ends
Established ==
    \A g \in Guests : Host \in clients[g].connections /\ g \in clients[Host].connections

LoopEditsLeft == Established /\ EditCount < MaxLoopEdits

NextLoop ==
    \/ CreateSession(Host)
    \/ \E p \in Guests : Connect(p)
    \/ \E p, q \in Peer : ConnOpen(p, q)
    \/ \E p, q \in Peer : Deliver(p, q)
    \/ \E p \in Editors, id \in AnnIds : LoopEditsLeft /\ LocalAdd(p, id)
    \/ \E p \in Editors, id \in AnnIds, u \in LocalUpdates : LoopEditsLeft /\ LocalUpdate(p, id, u)
    \/ \E p \in Editors, id \in AnnIds : LoopEditsLeft /\ LocalDelete(p, id)
    \/ \E p \in Editors : LoopEditsLeft /\ Quiet /\ Len(clients[p].store.historyStack) <= MaxCaptures /\ Capture(p)
    \/ \E p \in Editors : LoopEditsLeft /\ Quiet /\ Undo(p)
    \/ \E p \in Editors : LoopEditsLeft /\ Quiet /\ Redo(p)

SpecLoop == Init /\ [][NextLoop]_vars

\* a message waits on a channel whose receiving end is open: Deliver is enabled
DeliverDue == \E pq \in Channels : chan[pq] # <<>> /\ pq[1] \in clients[pq[2]].connections
\* an end of a dialed connection has not had its 'open' event: ConnOpen is enabled
OpenDue ==
    \E p, q \in Peer : /\ Linked(p, q) /\ clients[Guest(p, q)].dialed
                       /\ q \notin clients[p].connections /\ q \notin clients[p].closed
                       /\ clients[p].peerOpen

(* Fair delivery: the event loop runs every 'data' and 'open' event that is *)
(* due. This is WF_vars(Deliver) /\ WF_vars(ConnOpen) with ENABLED written  *)
(* out as the guards of the two actions, both of which always change chan   *)
(* or clients.                                                              *)
FairDelivery ==
    /\ ([]<>(~DeliverDue)) \/ ([]<><<lastOp'.op = "deliver">>_vars)
    /\ ([]<>(~OpenDue)) \/ ([]<><<lastOp'.op = "open">>_vars)

SpecLoopFair == SpecLoop /\ FairDelivery

SyncTraffic == {"sync-step-1", "sync-step-2", "update"}
NoSyncTraffic ==
    \A pq \in Channels : \A i \in DOMAIN chan[pq] : chan[pq][i].type \notin SyncTraffic
LocalEditOps == {"add", "update", "delete", "capture", "undo", "redo"}

\* C31: under fair delivery the session reaches a state with no sync-step or
\* update message in flight and stays without one for good once the edits
\* (undo and redo among them) have ended; from a state without such a
\* message only a local edit or a channel's 'open' handshake sends one
C31_NoNetworkLoop ==
    /\ <>[]NoSyncTraffic
    /\ [][(NoSyncTraffic /\ ~NoSyncTraffic') => lastOp'.op \in LocalEditOps \cup {"open"}]_vars

\* the guest's undo of its own annotation reached the host, the host relayed
\* it, and nothing is in flight any more
C31_Witness ==
    /\ Established /\ Quiet
    /\ lastOp.op = "deliver" /\ lastOp.msg.type = "update"
    /\ lastOp.peer = "G2"
    /\ Len(clients["G1"].store.redoStack) > 0
    /\ LiveAnns(clients["G2"]) = <<>> /\ clients["G2"].doc.ds # {}

\* the live annotation of the id, without the field that is not synchronized
Synced(c, id) == StripFallbackPaths(MapOfGet(LiveAnns(c), id))

\* C32: host and guest directly connected, edits on both sides exchanged and
\* nothing in flight: the two Stores hold the same non-temp_ ids, and every
\* such annotation has, apart from fallbackPaths, the same fields and values
\* in both Stores and in the annotation map
C32_StoresConverge ==
    PairSynced =>
        /\ CommittedIds(H) = CommittedIds(clients["G1"])
        /\ CommittedIds(H) = DOMAIN AnnotationMap(Host)
        /\ \A id \in CommittedIds(H) \cap CommittedIds(clients["G1"]) \cap DOMAIN AnnotationMap(Host) :
               /\ SameFields(Synced(H, id), Synced(clients["G1"], id))
               /\ SameFields(Synced(H, id), AnnotationMap(Host)[id])

\* C33: whatever the interleaving of local and remote adds, updates and
\* deletes with captures, undos and redos, the live collection of the Store
\* holds at most one annotation per id
C33_UniqueIds == \A id \in AnnIds \cup TempIds : CountId(Live, id) <= 1

\* C34: the 'data' handler sends a copy of the message it received only on
\* the host, only for an update, announce-user or playback message, and
\* never to the sender: a guest forwards nothing, and nobody forwards a
\* sync-step-1 or sync-step-2
C34_RelayCondition ==
    lastOp.op = "deliver" =>
        \A i \in DOMAIN sent :
            SameMsg(sent[i][2], lastOp.msg) =>
                /\ clients[lastOp.peer].isHost
                /\ lastOp.msg.type \in RelayedTypes
                /\ sent[i][1] # lastOp.from

\* the host, with G2 connected, merged a sync-step-2 of G1 that carries an
\* annotation and sent nothing
C34_Witness ==
    /\ lastOp.op = "deliver" /\ lastOp.peer = Host /\ lastOp.from = "G1"
    /\ lastOp.msg.type = "sync-step-2" /\ lastOp.msg.data.structs # {}
    /\ "G2" \in H.connections
    /\ sent = <<>>

\* C35: after disconnect() the client is in no role and knows no user, as a
\* client that was just constructed
C35_DisconnectReturnsToIdle ==
    lastOp.op = "disconnect" =>
        /\ ~clients[lastOp.peer].isHost
        /\ clients[lastOp.peer].connectedUsers = InitClient(lastOp.peer).connectedUsers

(* The round-trip specification: the single client of Spec, whose user also *)
(* presses undo and redo one right after the other.                         *)
UndoRedo(p) ==
    /\ FinishWithin(p, Run(clients[p], <<Call("undo", <<>>), Call("redo", <<>>)>>))
    /\ lastOp' = Op("undoRedo", p, "")
    /\ UnchangedGhosts

NextTrip == Next \/ UndoRedo(Host)

SpecTrip == Init /\ [][NextTrip]_vars

\* a state or snapshot with its annotation array in place of the reference
SnapValue(c, snap) == [snap EXCEPT !.annotations = SnapAnns(c, snap)]
StackValue(c, stack) == [i \in DOMAIN stack |-> SnapValue(c, stack[i])]
\* nothing uncaptured: the live state is the top snapshot of the history
Captured(c) ==
    SnapValue(c, c.store.state) = SnapValue(c, c.store.historyStack[Len(c.store.historyStack)])
RoundTrip(c, d) ==
    /\ LiveAnns(d) = LiveAnns(c)
    /\ StackValue(d, d.store.historyStack) = StackValue(c, c.store.historyStack)
    /\ StackValue(d, d.store.redoStack) = StackValue(c, c.store.redoStack)

\* C36: with nothing uncaptured and a snapshot to go back to, undo() followed
\* at once by redo() leaves the live collection (ids, order, fields), the
\* history stack and the redo stack as they were, remote annotations in the
\* snapshots included
C36_Step ==
    (lastOp'.op = "undoRedo" /\ Captured(H) /\ Len(H.store.historyStack) > 1) =>
        RoundTrip(H, clients'[Host])
C36_UndoRedoRoundTrip == [][C36_Step]_vars

(* The replacement specification: host and guest G1 in a session; between   *)
(* the exchanges both add annotations and the host's user loads a JSON file *)
(* or presses Clear Current Frame or Clear All Annotations.                 *)
ImportFiles == { <<NewAnnotation("r")>>, <<NewAnnotation("a"), NewAnnotation("r")>> }

\* store.setState({ annotations }) with an array the caller built
ReplaceAnnotations(c, annotations) ==
    Result([c EXCEPT !.store.heap = Append(@, annotations)],
           <<Call("setState", <<[annotations |-> Len(c.store.heap) + 1]>>)>>)

\* Annotator.handleLoad: reader.onload for a file that holds an array
HandleLoad(p, file) ==
    /\ Len(clients[p].store.historyStack) <= MaxCaptures
    /\ LET r == ReplaceAnnotations(clients[p], file)
       IN Finish(p, Run(r.c, r.calls \o <<Call("captureSnapshot", <<>>)>>))
    /\ lastOp' = Op("load", p, "")
    /\ UnchangedGhosts

\* the Clear Current Frame button, pressed on the frame
ClearCurrentFrame(p, frame) ==
    /\ LET NotOnFrame(a) == Num(Get(a, "frame")) # frame
           r == ReplaceAnnotations(clients[p], SelectSeq(LiveAnns(clients[p]), NotOnFrame))
       IN Finish(p, Run(r.c, r.calls))
    /\ lastOp' = Op("clearFrame", p, "")
    /\ UnchangedGhosts

\* the Clear All Annotations button, confirmed
ClearAll(p) ==
    /\ LET r == ReplaceAnnotations(clients[p], <<>>)
       IN Finish(p, Run(r.c, r.calls))
    /\ lastOp' = Op("clearAll", p, "")
    /\ UnchangedGhosts

NextReplace ==
    \/ CreateSession(Host)
    \/ Connect("G1")
    \/ \E p, q \in Editors : ConnOpen(p, q)
    \/ \E p, q \in Editors : Deliver(p, q)
    \/ \E p \in Editors, id \in AnnIds : InSession /\ LocalAdd(p, id)
    \/ \E p \in Editors, id \in AnnIds, u \in LocalUpdates : InSession /\ EditCount < MaxPairEdits /\ LocalUpdate(p, id, u)
    \/ \E file \in ImportFiles : InSession /\ HandleLoad(Host, file)
    \/ \E frame \in 1..2 : InSession /\ ClearCurrentFrame(Host, frame)
    \/ InSession /\ ClearAll(Host)

SpecReplace == Init /\ [][NextReplace]_vars

ReplaceOps == {"load", "clearFrame", "clearAll"}

\* C37: after setState({annotations}) replaced the collection (JSON import,
\* Clear Current Frame, Clear All Annotations) the keys of the local
\* annotation map are the non-temp_ ids of the new collection, and once the
\* messages are delivered the guest's Store holds the same ids
C37_ReplacePropagates ==
    /\ lastOp.op \in ReplaceOps => DOMAIN AnnotationMap(Host) = CommittedIds(H)
    /\ InSession => CommittedIds(clients["G1"]) = CommittedIds(H)

\* C38: the 'play' event of a play the local user started, handled while
\* channels are open, sends a play message to every connected peer
C38_Step ==
    (/\ lastOp.op = "userPlay"
     /\ lastOp'.op = "videoEvent" /\ lastOp'.peer = lastOp.peer
     /\ Head(clients[lastOp.peer].videoEvents) = "play") =>
        \A q \in clients[lastOp.peer].connections :
            Copies(sent', q, PlaybackMsg("play", NoFrame)) = 1
C38_LocalPlaybackSent == [][C38_Step]_vars

\* C39: once the channel of the host, still in its session, with a guest has
\* closed and nothing is in flight, the guest is in the user list of neither
\* the host nor any guest that is still connected
C39_DepartedRemoved ==
    \A g \in Guests :
        (H.isHost /\ H.peerOpen /\ g \in H.closed /\ Quiet) =>
            /\ g \notin H.connectedUsers
            /\ \A q \in Guests \ {g} : Connected(q) => g \notin clients[q].connectedUsers

====
